---- MODULE Spec2Model ----
(***************************************************************************)
(* Certificate generator (cergen): the /upload handler of server.js, the  *)
(* PDF and PPTX batch processors, the output file name sanitizer and the  *)
(* bulk mail loop of EmailService, as state machines.                     *)
(*                                                                         *)
(* Strings the code inspects character by character (recipient names) are  *)
(* sequences of one-character strings.                                     *)
(***************************************************************************)
EXTENDS Integers, Sequences, FiniteSets, TLC

VARIABLES
    sanPc, sanIn, sanOut,                       \* one call of the file name sanitizer
    names, faults, idx, generatedFiles,         \* PDFProcessor.generateCertificates locals
    attempts, pdfPc, outputDir,
    fsys, dirs,                                 \* the ./generated tree: files and directories
    upPc, sheet, template, response, rendered,  \* one POST /upload request
    pyOutcome,                                  \* what the python helper reported
    reqDate, additionalOptions, rendererDate,   \* req.body.date and where it goes
    transporter, isConfigured,                  \* EmailService fields
    callTransporter,                            \* the transporter when sendBulkCertificates was called
    cfgPc, cfgBody, cfgResponse,                \* one POST /configure-email request
    testResult,                                 \* what GET /test-email answered last
    drive, driveConfigured,                     \* DriveService fields
    recipients, mailIdx, results, errors,       \* sendBulkCertificates locals
    mailPc, inFlight, mailLog, bulkResult,
    scanPc, entries, entryIdx, placeholders,    \* one run of the placeholder scan
    scanResult,
    resPc, resToken, resName, resMapped,        \* one call of the field resolver
    resValue,
    ovPc, pages, pageIdx, ovName, ovOptions,    \* one run of processAdvancedPDFTemplate
    analysis, drawn, canvas,
    catPc, searchOptions, searchResult,         \* one GET /canva/templates request
    now, genDir, batchDirs, batchFiles,         \* the clock and the ./generated tree of the
    upReq, apiResponse                          \* batch routes; uploads in flight; last answer

pdfVars  == <<names, faults, idx, generatedFiles, attempts, pdfPc, outputDir, fsys, dirs>>
sanVars  == <<sanPc, sanIn, sanOut>>
upVars   == <<upPc, sheet, template, response, rendered, pyOutcome,
              reqDate, additionalOptions, rendererDate>>
svcVars  == <<callTransporter, cfgPc, cfgBody, cfgResponse, testResult, drive, driveConfigured>>
mailVars == <<transporter, isConfigured, recipients, mailIdx, results, errors,
              mailPc, inFlight, mailLog, bulkResult, svcVars>>
scanVars == <<scanPc, entries, entryIdx, placeholders, scanResult>>
resVars  == <<resPc, resToken, resName, resMapped, resValue>>
ovVars   == <<ovPc, pages, pageIdx, ovName, ovOptions, analysis, drawn, canvas>>
catVars  == <<catPc, searchOptions, searchResult>>
docVars  == <<scanVars, resVars, ovVars, catVars>>
batchVars == <<now, genDir, batchDirs, batchFiles, upReq, apiResponse>>
vars     == <<sanVars, pdfVars, upVars, mailVars, docVars, batchVars>>

(***************************************************************************)
(* Bounds of the model.                                                    *)
(***************************************************************************)
MaxLen        == 3      \* longest name given to the sanitizer alone
MaxNames      == 3      \* longest recipient list given to the PDF processor alone
MaxRows       == 2      \* most data rows of an uploaded spreadsheet
MaxRecipients == 3      \* longest recipient list of one bulk mail call
MaxPieces     == 3      \* most pieces a scanned deck text is put together from
MaxPages      == 2      \* most pages of a PDF template
LongNameLen   == 40     \* length of the long recipient name given to the overlay
MaxClock      == 2      \* last millisecond of the clock the batch routes run under
MaxLimit      == 3      \* largest limit asked of the catalogue
MaxOffset     == 6      \* largest offset asked of the catalogue

(***************************************************************************)
(* Characters.  A few of each class the regular expressions tell apart.    *)
(***************************************************************************)
AlnumChars      == {"A", "b", "7"}          \* members of [a-zA-Z0-9]
WhitespaceChars == {" ", "\t"}              \* members of \s: the space and the tab
OtherChars      == {"'", "_"}               \* in neither class
Alphabet        == AlnumChars \cup WhitespaceChars \cup OtherChars

IsAlnum(c) == c \in AlnumChars
IsSpace(c) == c \in WhitespaceChars

\* All sequences over S of length at most n.
SeqUpTo(S, n) == UNION { [1..k -> S] : k \in 0..n }

(***************************************************************************)
(* name.replace(/[^a-zA-Z0-9\s]/g, '').replace(/\s+/g, '_')                *)
(***************************************************************************)
\* A sanitizer whose first pass keeps the space but no other whitespace.
StripKeepingSpaceOnly(name) ==
    SelectSeq(name, LAMBDA c : IsAlnum(c) \/ c = " ")

\* First replace: every character that is neither alphanumeric nor whitespace goes.
StripUnsafe(name) ==
    SelectSeq(name, LAMBDA c : IsAlnum(c) \/ IsSpace(c))

RECURSIVE DropLeadingSpace(_)
DropLeadingSpace(s) ==
    IF s # <<>> /\ IsSpace(Head(s)) THEN DropLeadingSpace(Tail(s)) ELSE s

\* Second replace: every maximal run of whitespace becomes one underscore.
RECURSIVE CollapseWhitespace(_)
CollapseWhitespace(s) ==
    IF s = <<>> THEN <<>>
    ELSE IF IsSpace(Head(s))
         THEN <<"_">> \o CollapseWhitespace(DropLeadingSpace(Tail(s)))
         ELSE <<Head(s)>> \o CollapseWhitespace(Tail(s))

SafeFileName(name) == CollapseWhitespace(StripUnsafe(name))

\* `certificate-${safeFileName}.pdf`
OutputFileName(name) == <<"certificate-">> \o SafeFileName(name) \o <<".pdf">>

\* `${outputDir}/certificate-${safeFileName}.pdf`
OutputPath(dir, name) == [dir |-> dir, file |-> OutputFileName(name)]

(***************************************************************************)
(* PDFProcessor: one render, and the batch loop of generateCertificates.   *)
(***************************************************************************)
\* Recipient names a batch is run on.  The first two differ only by a
\* character the sanitizer strips, so their output paths coincide.
BatchNames == { <<"b", "A">>, <<"b", "'", "A">>, <<"A", " ", "7">> }

\* How one render ends: it writes the file, or one of its awaits throws
\* (fs.readFile, PDFDocument.load, fs.writeFile).
RenderOutcomes == {"ok", "readFail", "parseFail", "writeFail"}

NoFiles == [p \in {} |-> <<>>]

\* fs.writeFile(path, bytes): creates the file or replaces its content.
WriteFile(fs, path, content) ==
    [p \in DOMAIN fs \cup {path} |-> IF p = path THEN content ELSE fs[p]]

\* multer's diskStorage: the template is stored as ./templates/<timestamp>-<originalname>.
TemplatePath  == [dir |-> "templates", file |-> <<"1700000000000-", "template">>]
TemplateBytes == [drawn |-> <<>>]

\* The files on disk when the batch starts: the stored template, nothing generated.
UploadedFiles == WriteFile(NoFiles, TemplatePath, TemplateBytes)

\* A render that saves the document over the template as well.
SaveInPlace(fs, name, path, outcome) ==
    IF outcome = "ok"
    THEN WriteFile(WriteFile(fs, path, [drawn |-> name]), TemplatePath, [drawn |-> name])
    ELSE fs

\* The bytes of a certificate are determined by the template and the name drawn on it.
CertificateFor(name) == [drawn |-> name]

\* processAdvancedPDFTemplate(templatePath, {name}, outputPath, options):
\* the file system after the call; every failure is thrown before or by the write.
ProcessAdvancedPDFTemplate(fs, name, path, outcome) ==
    IF outcome = "ok" THEN WriteFile(fs, path, CertificateFor(name)) ELSE fs

\* The object pushed on generatedFiles.
GeneratedFile(dir, name) ==
    [name |-> name, filename |-> OutputFileName(name), path |-> OutputPath(dir, name)]

\* The body of the for loop for one name: try { render; push } catch { log }.
RenderOne(fs, gen, dir, name, outcome) ==
    [fs  |-> ProcessAdvancedPDFTemplate(fs, name, OutputPath(dir, name), outcome),
     gen |-> IF outcome = "ok" THEN Append(gen, GeneratedFile(dir, name)) ELSE gen]

\* A loop that leaves at the first failed render.
AbortOnFailure(i, n, outcome) == IF outcome = "ok" THEN i + 1 ELSE n + 1

\* A loop that renders a failed recipient again.
RetryOnFailure(i, n, outcome) == IF outcome = "ok" THEN i + 1 ELSE i

\* for (let i = 0; ...; i++) with the catch inside the body: the position after
\* position i of n has been rendered, whatever its outcome.
NextPosition(i, n, outcome) == i + 1

\* The whole loop as a function of its input, from the stored template and an
\* empty output directory.
RECURSIVE RunFrom(_, _, _, _, _, _)
RunFrom(fs, gen, dir, nm, fl, i) ==
    IF i > Len(nm) THEN [fs |-> fs, gen |-> gen]
    ELSE LET r == RenderOne(fs, gen, dir, nm[i], fl[i])
         IN  RunFrom(r.fs, r.gen, dir, nm, fl, NextPosition(i, Len(nm), fl[i]))

RunBatch(dir, nm, fl) == RunFrom(UploadedFiles, <<>>, dir, nm, fl, 1)

\* generateCertificates is entered: generatedFiles = [], await fs.ensureDir(outputDir).
\* ensureDir of a directory that is not there yet may throw; it is outside the try.
PdfStart ==
    /\ pdfPc = "called"
    /\ generatedFiles' = <<>>
    /\ idx' = 1
    /\ attempts' = <<>>
    /\ \/ /\ dirs' = dirs \cup {outputDir}
          /\ pdfPc' = "loop"
       \/ /\ outputDir \notin dirs
          /\ dirs' = dirs
          /\ pdfPc' = "threw"
    /\ UNCHANGED <<names, faults, outputDir, fsys>>
    /\ UNCHANGED <<batchVars, sanVars, upVars, mailVars, docVars>>

\* One iteration of the loop.
PdfRenderStep ==
    /\ pdfPc = "loop"
    /\ idx <= Len(names)
    /\ LET r == RenderOne(fsys, generatedFiles, outputDir, names[idx], faults[idx])
       IN  /\ fsys' = r.fs
           /\ generatedFiles' = r.gen
    /\ attempts' = Append(attempts, idx)
    /\ idx' = NextPosition(idx, Len(names), faults[idx])
    /\ UNCHANGED <<names, faults, outputDir, dirs, pdfPc>>
    /\ UNCHANGED <<batchVars, sanVars, upVars, mailVars, docVars>>

\* i < names.length is false: return generatedFiles.
PdfReturn ==
    /\ pdfPc = "loop"
    /\ idx > Len(names)
    /\ pdfPc' = "returned"
    /\ UNCHANGED <<names, faults, idx, generatedFiles, attempts, outputDir, fsys, dirs>>
    /\ UNCHANGED <<batchVars, sanVars, upVars, mailVars, docVars>>

(***************************************************************************)
(* server.js: the upload filter, extractDataFromExcel, generateCertificates *)
(* and the POST /upload handler.                                           *)
(***************************************************************************)
PdfMime  == "application/pdf"
PptxMime == "application/vnd.openxmlformats-officedocument.presentationml.presentation"

\* An uploaded template: its declared MIME type and the extension of its original
\* name as written.  The stored path is `${timestamp}-${originalname}`, so
\* path.extname of the stored path is this extension.
Mimetypes  == {PdfMime, PptxMime, "text/plain"}
Extensions == {".pdf", ".PDF", ".pptx", ".txt"}
Templates  == [mimetype : Mimetypes, ext : Extensions]

\* String.prototype.toLowerCase on the extensions above.
ToLowerCase(ext) == IF ext = ".PDF" THEN ".pdf" ELSE ext

\* upload.fileFilter for the field 'template'; endsWith is case-sensitive.
TemplateFilter(t) ==
    \/ t.mimetype = PdfMime
    \/ t.ext = ".pdf"
    \/ t.mimetype = PptxMime
    \/ t.ext = ".pptx"

\* XLSX.utils.sheet_to_json: one object per data row, keyed by the header of every
\* non-empty cell of the row.  A cell holds a string or a number.
Headers     == {"name", "Names"}
NumberCell  == <<"#42">>                      \* a numeric cell (a non-zero number)
BlankCell   == <<" ">>                        \* a string of whitespace only
CellValues  == { <<"b", "A">>, <<"b", "'", "A">>, BlankCell, NumberCell }
\* A row with no key stands for a row whose only cells are in other columns.
Rows        == UNION { [H -> CellValues] : H \in SUBSET Headers }
Sheets      == SeqUpTo(Rows, MaxRows)

NameColumns == <<"name", "Name", "NAME", "names", "Names", "NAMES">>

\* The for loop over nameColumns: the first variant that is a key of data[0];
\* "" (null) when there is none or there is no row.
RECURSIVE FindColumn(_, _, _)
FindColumn(data, cols, k) ==
    IF k > Len(cols) THEN ""
    ELSE IF Len(data) > 0 /\ cols[k] \in DOMAIN data[1] THEN cols[k]
    ELSE FindColumn(data, cols, k + 1)

\* A filter that tests the name without trimming it.
NonEmptyUntrimmed(s) == s # <<>>

\* String.prototype.trim() yields a non-empty string.
TrimsToNonEmpty(s) == \E k \in DOMAIN s : ~IsSpace(s[k])

\* A lookup that falls back on any other cell of the row.
NameUnderAnyHeader(row, col) ==
    IF col \in DOMAIN row THEN row[col]
    ELSE IF DOMAIN row # {} THEN row[CHOOSE h \in DOMAIN row : TRUE]
    ELSE <<>>

\* item.name: undefined (here <<>>) when the row has no cell in the name column.
NameOf(row, col) == IF col \in DOMAIN row THEN row[col] ELSE <<>>

\* extractDataFromExcel: the names of the rows kept, or the error thrown.
\* item.name.trim() on a number throws a TypeError, caught and rethrown.
ExtractDataFromExcel(data) ==
    LET col   == FindColumn(data, NameColumns, 1)
        cells == [k \in DOMAIN data |-> NameOf(data[k], col)]
    IN  IF col = ""
        THEN [ok |-> FALSE, error |-> "Error reading Excel file: No name column found", data |-> <<>>]
        ELSE IF \E k \in DOMAIN cells : cells[k] = NumberCell
        THEN [ok |-> FALSE, error |-> "Error reading Excel file: item.name.trim is not a function", data |-> <<>>]
        ELSE [ok |-> TRUE, error |-> "",
              data |-> SelectSeq(cells, LAMBDA c : c # <<>> /\ TrimsToNonEmpty(c))]

NoResponse == [status |-> 0]
ErrorResponse(code, msg) == [status |-> code, error |-> msg]

\* The value of the local `data` once extractDataFromExcel has returned.
OutOfScope == <<>>

BatchDir == "generated/batch-1"

\* req.body.date: absent, empty, or a date the caller wrote.
Undefined == "<undefined>"
ReqDates  == {Undefined, "", "2024-05-01"}

\* new Date().toLocaleDateString()
CurrentDate == "11/1/2026"

\* No date has been handed to a renderer.
NoDate == "<none>"

\* A default that lets the caller's value through whatever it is.
DateAsGiven(date) == date

\* date || new Date().toLocaleDateString(): undefined and '' are falsy.
DateOrDefault(date) == IF date \in {Undefined, ""} THEN CurrentDate ELSE date

\* A request arrives: multer applies the filter and stores the files, then the
\* handler checks that both files are there.
UploadRequest ==
    /\ upPc = "idle"
    /\ \E t \in Templates, s \in Sheets, present \in BOOLEAN :
         /\ template' = t
         /\ sheet' = s
         /\ reqDate' \in ReqDates
         /\ IF ~TemplateFilter(t)
            THEN /\ response' = ErrorResponse(500, "Only PDF and PPTX files are allowed for template field")
                 /\ upPc' = "responded"
            ELSE IF ~present
            THEN /\ response' = ErrorResponse(400, "Both Excel file and PDF template are required")
                 /\ upPc' = "responded"
            ELSE /\ response' = response
                 /\ upPc' = "received"
         /\ fsys' = IF TemplateFilter(t) /\ present
                    THEN WriteFile(fsys, TemplatePath, TemplateBytes)
                    ELSE fsys
    /\ UNCHANGED <<rendered, pyOutcome, additionalOptions, rendererDate>>
    /\ UNCHANGED <<names, faults, idx, generatedFiles, attempts, pdfPc, outputDir, dirs>>
    /\ UNCHANGED <<batchVars, sanVars, mailVars, docVars>>

\* await extractDataFromExcel(excelFile.path), the length check and the names.
ExtractData ==
    /\ upPc = "received"
    /\ LET r == ExtractDataFromExcel(sheet)
       IN  IF ~r.ok
           THEN /\ response' = ErrorResponse(500, r.error)
                /\ upPc' = "responded"
                /\ names' = names
           ELSE IF Len(r.data) = 0
           THEN /\ response' = ErrorResponse(400, "No names found in the Excel file")
                /\ upPc' = "responded"
                /\ names' = names
           ELSE /\ response' = response
                /\ upPc' = "extracted"
                /\ names' = r.data
    /\ UNCHANGED <<sheet, template, rendered, pyOutcome>>
    /\ UNCHANGED <<reqDate, additionalOptions, rendererDate>>
    /\ UNCHANGED <<faults, idx, generatedFiles, attempts, pdfPc, outputDir, fsys, dirs>>
    /\ UNCHANGED <<batchVars, sanVars, mailVars, docVars>>

\* const outputDir = path.join('./generated', `batch-${timestamp}`); await fs.ensureDir(outputDir)
CreateBatchDir ==
    /\ upPc = "extracted"
    /\ sheet' = OutOfScope
    /\ \/ /\ outputDir' = BatchDir
          /\ dirs' = dirs \cup {BatchDir}
          /\ upPc' = "dispatch"
          /\ response' = response
          /\ additionalOptions' = [date |-> DateOrDefault(reqDate)]
       \/ /\ outputDir' = outputDir
          /\ dirs' = dirs
          /\ upPc' = "responded"
          /\ response' = ErrorResponse(500, "ensureDir failed")
          /\ additionalOptions' = additionalOptions
    /\ UNCHANGED <<template, rendered, pyOutcome, reqDate, rendererDate>>
    /\ UNCHANGED <<names, faults, idx, generatedFiles, attempts, pdfPc, fsys>>
    /\ UNCHANGED <<batchVars, sanVars, mailVars, docVars>>

\* How the run of the python helper ends, as callPythonProcessor sees it: exit
\* code 0 with JSON whose success is true, JSON whose success is false, a
\* non-zero exit code, output JSON.parse rejects, or the 'error' event of spawn.
PyOutcomes == {"results", "successFalse", "exitNonZero", "unparsable", "spawnError"}

\* result.results of a successful helper run: one entry per recipient the helper
\* rendered, in input order.
PythonResults(dir, nm, fl) ==
    LET okIdx == SelectSeq([k \in DOMAIN nm |-> k], LAMBDA k : fl[k] = "ok")
    IN  [r \in DOMAIN okIdx |->
            [name |-> nm[okIdx[r]],
             filename |-> <<"certificate-">> \o SafeFileName(nm[okIdx[r]]) \o <<".pptx">>,
             path |-> [dir |-> dir,
                       file |-> <<"certificate-">> \o SafeFileName(nm[okIdx[r]]) \o <<".pptx">>]]]

\* callPythonProcessor: the promise resolves with result.results or rejects.
CallPythonProcessor(dir, nm, fl, outcome) ==
    IF outcome = "results"
    THEN [resolved |-> TRUE,  value |-> PythonResults(dir, nm, fl)]
    ELSE [resolved |-> FALSE, value |-> <<>>]

\* PPTXProcessor.generateCertificates: returns what the helper call resolves
\* with; a rejection is rethrown as 'Error processing PPTX templates'.
PptxGenerateCertificates(dir, nm, fl, outcome) ==
    LET r == CallPythonProcessor(dir, nm, fl, outcome)
    IN  [threw |-> ~r.resolved, value |-> r.value]

\* The catch of generateCertificates in server.js: whatever was thrown inside
\* the try becomes the empty list.
CatchReturnsEmpty(r) == IF r.threw THEN <<>> ELSE r.value

\* generateCertificates of server.js picks the processor by the lower-cased
\* extension; any other extension throws inside the try.
Dispatch ==
    /\ upPc = "dispatch"
    /\ LET ext == ToLowerCase(template.ext)
       IN  IF ext = ".pptx"
           THEN /\ upPc' = "pptx"
                /\ \E fl \in [DOMAIN names -> RenderOutcomes] : faults' = fl
                /\ UNCHANGED <<rendered, pdfPc, rendererDate>>
           ELSE IF ext = ".pdf"
           THEN /\ upPc' = "pdf"
                /\ pdfPc' = "called"
                /\ \E fl \in [DOMAIN names -> RenderOutcomes] : faults' = fl
                /\ rendererDate' = additionalOptions.date    \* {fontSize: 24, ...options}
                /\ UNCHANGED rendered
           ELSE /\ upPc' = "generated"
                /\ rendered' = CatchReturnsEmpty([threw |-> TRUE, value |-> <<>>])
                /\ UNCHANGED <<faults, pdfPc, rendererDate>>
    /\ UNCHANGED <<sheet, template, response, pyOutcome, reqDate, additionalOptions>>
    /\ UNCHANGED <<names, idx, generatedFiles, attempts, outputDir, fsys, dirs>>
    /\ UNCHANGED <<batchVars, sanVars, mailVars, docVars>>

\* The helper process runs over the whole recipient list and closes.
PptxRun ==
    /\ upPc = "pptx"
    /\ \E outcome \in PyOutcomes :
         /\ pyOutcome' = outcome
         /\ rendered' = CatchReturnsEmpty(
                            PptxGenerateCertificates(outputDir, names, faults, outcome))
    /\ rendererDate' = DateOrDefault(additionalOptions.date)    \* additionalData.date
    /\ upPc' = "generated"
    /\ UNCHANGED <<sheet, template, response, pdfVars, reqDate, additionalOptions>>
    /\ UNCHANGED <<batchVars, sanVars, mailVars, docVars>>

\* pdfProcessor.generateCertificates has settled.
PdfDone ==
    /\ upPc = "pdf"
    /\ pdfPc \in {"returned", "threw"}
    /\ rendered' = CatchReturnsEmpty([threw |-> pdfPc = "threw", value |-> generatedFiles])
    /\ upPc' = "generated"
    /\ UNCHANGED <<sheet, template, response, pyOutcome, pdfVars>>
    /\ UNCHANGED <<reqDate, additionalOptions, rendererDate>>
    /\ UNCHANGED <<batchVars, sanVars, mailVars, docVars>>

\* res.json({success: true, message: `Generated ${generatedFiles.length} certificates`, ...})
Respond ==
    /\ upPc = "generated"
    /\ response' = [status |-> 200,
                    success |-> TRUE,
                    message |-> Len(rendered),      \* the count the message states
                    names |-> names,
                    generatedFiles |-> rendered,
                    batchId |-> "batch-1"]
    /\ upPc' = "responded"
    /\ UNCHANGED <<sheet, template, rendered, pyOutcome, pdfVars>>
    /\ UNCHANGED <<reqDate, additionalOptions, rendererDate>>
    /\ UNCHANGED <<batchVars, sanVars, mailVars, docVars>>

(***************************************************************************)
(* EmailService.sendBulkCertificates: the loop over the recipients, each   *)
(* send awaited, and the delay.                                            *)
(***************************************************************************)
DelayMs == 1000

\* The recipients of a bulk call: name and address.
MailRecipients == { [name |-> "ann", email |-> "ann@example.com"],
                    [name |-> "bo",  email |-> "bo@example.com"] }

\* The object the catch of the loop pushes on errors.
ErrorRecord(recipient, message) ==
    [name |-> recipient.name, email |-> recipient.email, error |-> message]

\* What sendCertificate resolves with.
SendResult(recipient) ==
    [success |-> TRUE, recipient |-> recipient.email, name |-> recipient.name]

\* A loop that gives up at the first failed delivery.
AbortBulkOnFailure(i, n, delivered) == IF delivered THEN i + 1 ELSE n + 1

\* for (const recipient of recipients) with the try/catch inside the body: the
\* position after position i of n, delivered or not.
NextRecipient(i, n, delivered) == i + 1

\* A summary that calls the call a success as soon as one message went out.
BulkResultAnySent(res, errs) ==
    [success |-> Len(res) > 0, sent |-> Len(res), failed |-> Len(errs),
     results |-> res, errors |-> errs]

\* return {success: errors.length === 0, sent, failed, results, errors}
BulkResult(res, errs) ==
    [success |-> Len(errs) = 0, sent |-> Len(res), failed |-> Len(errs),
     results |-> res, errors |-> errs]

NoBulkResult == [sent |-> -1]

LogEvent(kind, i) == [ev |-> kind, pos |-> i]

\* sendCertificate is called for the recipient at mailIdx.  Unconfigured, it
\* throws at once and the catch of the loop records the error; configured, it
\* hands the message to this.transporter.sendMail, the transporter installed
\* at that moment, and awaits it.
SendCertificateCall ==
    /\ mailPc = "next"
    /\ mailIdx <= Len(recipients)
    /\ IF ~isConfigured
       THEN /\ errors' = Append(errors, ErrorRecord(recipients[mailIdx],
                                                    "Email service not configured"))
            /\ mailLog' = Append(mailLog, LogEvent("notConfigured", mailIdx))
            /\ mailIdx' = NextRecipient(mailIdx, Len(recipients), FALSE)
            /\ UNCHANGED <<inFlight, mailPc>>
       ELSE /\ inFlight' = inFlight + 1
            /\ mailLog' = Append(mailLog, [ev |-> "sendStart", pos |-> mailIdx,
                                            via |-> transporter])
            /\ mailPc' = "sending"
            /\ UNCHANGED <<errors, mailIdx>>
    /\ UNCHANGED <<transporter, isConfigured, recipients, results, bulkResult>>
    /\ UNCHANGED <<svcVars, batchVars, sanVars, pdfVars, upVars, docVars>>

\* transporter.sendMail settles.  Resolved: results.push(result), then
\* await this.delay(1000).  Rejected: the catch pushes on errors and the loop
\* goes on to the next recipient.
SendSettles ==
    /\ mailPc = "sending"
    /\ inFlight' = inFlight - 1
    /\ \/ /\ results' = Append(results, SendResult(recipients[mailIdx]))
          /\ mailLog' = Append(mailLog, LogEvent("sendOk", mailIdx))
          /\ mailPc' = "delay"
          /\ UNCHANGED <<errors, mailIdx>>
       \/ /\ errors' = Append(errors, ErrorRecord(recipients[mailIdx],
                                                  "Failed to send email"))
          /\ mailLog' = Append(mailLog, LogEvent("sendFail", mailIdx))
          /\ mailPc' = "next"
          /\ mailIdx' = NextRecipient(mailIdx, Len(recipients), FALSE)
          /\ UNCHANGED results
    /\ UNCHANGED <<transporter, isConfigured, recipients, bulkResult>>
    /\ UNCHANGED <<svcVars, batchVars, sanVars, pdfVars, upVars, docVars>>

\* The timer of delay(1000) fires.
DelayElapses ==
    /\ mailPc = "delay"
    /\ mailLog' = Append(mailLog, [ev |-> "delayElapsed", pos |-> mailIdx, ms |-> DelayMs])
    /\ mailIdx' = NextRecipient(mailIdx, Len(recipients), TRUE)
    /\ mailPc' = "next"
    /\ UNCHANGED <<transporter, isConfigured, recipients, results, errors, inFlight,
                   bulkResult>>
    /\ UNCHANGED <<svcVars, batchVars, sanVars, pdfVars, upVars, docVars>>

\* The loop is over: return {success, sent, failed, results, errors}.
BulkReturn ==
    /\ mailPc = "next"
    /\ mailIdx > Len(recipients)
    /\ mailPc' = "returned"
    /\ bulkResult' = BulkResult(results, errors)
    /\ UNCHANGED <<transporter, isConfigured, recipients, mailIdx, results, errors,
                   inFlight, mailLog>>
    /\ UNCHANGED <<svcVars, batchVars, sanVars, pdfVars, upVars, docVars>>

\* The transporter field before any configuration.
NullTransporter == [service |-> "", user |-> <<>>, pass |-> ""]

\* nodemailer.createTransport({service: config.service || 'gmail',
\*                             auth: {user: config.user, pass: config.password}})
CreateTransport(config) ==
    [service |-> IF config.service = "" THEN "gmail" ELSE config.service,
     user |-> config.user, pass |-> config.password]

\* A configure that raises the flag before the transport is built.
ConfigureFlagFirst(config, created) ==
    [transporter  |-> IF created THEN CreateTransport(config) ELSE transporter,
     isConfigured |-> TRUE,
     result       |-> [success |-> created]]

\* EmailService.configure(config): the fields after the call and what it
\* returns.  When createTransport throws nothing has been assigned yet and the
\* catch returns the failure.
Configure(config, created) ==
    IF created
    THEN [transporter |-> CreateTransport(config), isConfigured |-> TRUE,
          result |-> [success |-> TRUE]]
    ELSE [transporter |-> transporter, isConfigured |-> isConfigured,
          result |-> [success |-> FALSE]]

\* process.env at start-up: EMAIL_USER, EMAIL_PASS and EMAIL_SERVICE, set or not.
Environments ==
    { [EMAIL_USER |-> <<>>, EMAIL_PASS |-> "", EMAIL_SERVICE |-> ""],
      [EMAIL_USER |-> <<"e", "@", "x", ".", "y">>, EMAIL_PASS |-> "", EMAIL_SERVICE |-> ""],
      [EMAIL_USER |-> <<"e", "@", "x", ".", "y">>, EMAIL_PASS |-> "envpass",
       EMAIL_SERVICE |-> ""] }

NoTestResult == [success |-> FALSE, error |-> "<none>"]

\* A connection test that goes to the transport whatever the flag says.
TestConnectionUnguarded(verified) ==
    IF verified THEN [success |-> TRUE, error |-> ""]
    ELSE [success |-> FALSE, error |-> "verify failed"]

\* EmailService.testConnection(): the failure value when unconfigured, else
\* the outcome of transporter.verify().
TestConnection(verified) ==
    IF ~isConfigured THEN [success |-> FALSE, error |-> "Email service not configured"]
    ELSE IF verified THEN [success |-> TRUE, error |-> ""]
    ELSE [success |-> FALSE, error |-> "verify failed"]

\* EmailService.getStatus()
GetStatus ==
    [configured |-> isConfigured,
     service |-> IF transporter # NullTransporter THEN "Configured" ELSE "Not configured"]

\* /^[^\s@]+@[^\s@]+\.[^\s@]+$/.test(user): no white space, one '@' with
\* something before it, and after it a '.' with something on both sides.
EmailRegexTest(user) ==
    /\ \A k \in DOMAIN user : ~IsSpace(user[k])
    /\ \E at \in DOMAIN user :
          /\ user[at] = "@"
          /\ \A k \in DOMAIN user : user[k] = "@" => k = at
          /\ at > 1
          /\ \E dot \in (at + 2)..(Len(user) - 1) : user[dot] = "."

\* The bodies of POST /configure-email: user, password and service as sent.
ConfigBodies ==
    { [user |-> <<>>, password |-> "pw", service |-> ""],
      [user |-> <<"n", "@", "x", ".", "y">>, password |-> "", service |-> ""],
      [user |-> <<"n", "@", "x">>, password |-> "pw", service |-> ""],
      [user |-> <<"n", "@", "x", ".", "y">>, password |-> "pw", service |-> ""] }

NoBody == [user |-> <<>>, password |-> "", service |-> ""]
NoCfgResponse == [status |-> 0, success |-> FALSE, error |-> ""]

\* emailService.configureFromEnv() at server start: configure with the
\* credentials of the environment when both are set, else nothing.
ConfigureFromEnv(env, created) ==
    /\ mailPc = "boot"
    /\ IF env.EMAIL_USER # <<>> /\ env.EMAIL_PASS # ""
       THEN LET c == Configure([user |-> env.EMAIL_USER, password |-> env.EMAIL_PASS,
                                service |-> IF env.EMAIL_SERVICE = "" THEN "gmail"
                                            ELSE env.EMAIL_SERVICE], created)
            IN  transporter' = c.transporter /\ isConfigured' = c.isConfigured
       ELSE UNCHANGED <<transporter, isConfigured>>
    /\ mailPc' = "ready"
    /\ UNCHANGED <<recipients, mailIdx, results, errors, inFlight, mailLog, bulkResult, svcVars>>
    /\ UNCHANGED <<batchVars, sanVars, pdfVars, upVars, docVars>>

\* sendBulkCertificates(recipients, emailConfig) is called: results = [],
\* errors = [], and the loop starts.
BulkCall ==
    /\ mailPc = "ready"
    /\ mailPc' = "next"
    /\ callTransporter' = transporter
    /\ UNCHANGED <<transporter, isConfigured, recipients, mailIdx, results, errors, inFlight,
                   mailLog, bulkResult>>
    /\ UNCHANGED <<cfgPc, cfgBody, cfgResponse, testResult, drive, driveConfigured>>
    /\ UNCHANGED <<batchVars, sanVars, pdfVars, upVars, docVars>>

\* POST /configure-email up to its await: 400 for a missing user or password
\* and for an address the pattern rejects; else configure, whose failure is
\* the response, and whose success is followed by the connection test.
ConfigureEmailRequest(body, created) ==
    /\ cfgPc = "idle"
    /\ mailPc # "boot"
    /\ cfgBody' = body
    /\ IF body.user = <<>> \/ body.password = ""
       THEN /\ cfgResponse' = [status |-> 400, success |-> FALSE,
                               error |-> "Email and password are required"]
            /\ cfgPc' = "done"
            /\ UNCHANGED <<transporter, isConfigured>>
       ELSE IF ~EmailRegexTest(body.user)
       THEN /\ cfgResponse' = [status |-> 400, success |-> FALSE,
                               error |-> "Please enter a valid email address"]
            /\ cfgPc' = "done"
            /\ UNCHANGED <<transporter, isConfigured>>
       ELSE LET c == Configure([service |-> IF body.service = "" THEN "gmail"
                                            ELSE body.service,
                                user |-> body.user, password |-> body.password], created)
            IN  /\ transporter' = c.transporter
                /\ isConfigured' = c.isConfigured
                /\ IF c.result.success
                   THEN cfgPc' = "testing" /\ cfgResponse' = cfgResponse
                   ELSE /\ cfgPc' = "done"
                        /\ cfgResponse' = [status |-> 200, success |-> FALSE,
                                           error |-> "createTransport threw"]
    /\ UNCHANGED <<recipients, mailIdx, results, errors, mailPc, inFlight, mailLog, bulkResult>>
    /\ UNCHANGED <<callTransporter, testResult, drive, driveConfigured>>
    /\ UNCHANGED <<batchVars, sanVars, pdfVars, upVars, docVars>>

\* A route that takes the new transport out again when its test fails.
UninstallOnFailedTest(verified) ==
    /\ cfgPc = "testing"
    /\ cfgPc' = "done"
    /\ cfgResponse' =
          IF TestConnection(verified).success
          THEN [status |-> 200, success |-> TRUE, error |-> ""]
          ELSE [status |-> 200, success |-> FALSE,
                error |-> "Configuration saved but connection test failed"]
    /\ transporter' = IF verified THEN transporter ELSE NullTransporter
    /\ isConfigured' = (IF verified THEN isConfigured ELSE FALSE)
    /\ UNCHANGED <<cfgBody, recipients, mailIdx, results, errors, mailPc,
                   inFlight, mailLog, bulkResult>>
    /\ UNCHANGED <<callTransporter, testResult, drive, driveConfigured>>
    /\ UNCHANGED <<batchVars, sanVars, pdfVars, upVars, docVars>>

\* POST /configure-email after await emailService.testConnection(): the
\* response is the test's failure or configure's result; the service is not
\* touched.
ConfigureEmailTested(verified) ==
    /\ cfgPc = "testing"
    /\ cfgPc' = "done"
    /\ cfgResponse' =
          IF TestConnection(verified).success
          THEN [status |-> 200, success |-> TRUE, error |-> ""]
          ELSE [status |-> 200, success |-> FALSE,
                error |-> "Configuration saved but connection test failed"]
    /\ UNCHANGED <<transporter, isConfigured, cfgBody, recipients, mailIdx, results, errors,
                   mailPc, inFlight, mailLog, bulkResult>>
    /\ UNCHANGED <<callTransporter, testResult, drive, driveConfigured>>
    /\ UNCHANGED <<batchVars, sanVars, pdfVars, upVars, docVars>>

\* GET /test-email: res.json(await emailService.testConnection())
TestEmail(verified) ==
    /\ mailPc # "boot"
    /\ testResult' = TestConnection(verified)
    /\ UNCHANGED <<transporter, isConfigured, recipients, mailIdx, results, errors,
                   mailPc, inFlight, mailLog, bulkResult>>
    /\ UNCHANGED <<callTransporter, cfgPc, cfgBody, cfgResponse, drive, driveConfigured>>
    /\ UNCHANGED <<batchVars, sanVars, pdfVars, upVars, docVars>>

(***************************************************************************)
(* DriveService.configure                                                  *)
(***************************************************************************)
NullDrive == [client_email |-> "", private_key |-> ""]

\* What configure is called with: no credentials at all, a service account
\* JSON without its private key, and a complete one.
NoCredentials == [given |-> FALSE, client_email |-> "", private_key |-> ""]
DriveConfigs ==
    { NoCredentials,
      [given |-> TRUE, client_email |-> "sa@example.com", private_key |-> ""],
      [given |-> TRUE, client_email |-> "sa@example.com", private_key |-> "key1"] }

\* DriveService.configure(config): throws for missing credentials and for
\* credentials without client_email or private_key, before anything is
\* assigned; so does a throwing GoogleAuth or google.drive.  Else the client
\* is stored and the flag raised.
DriveConfigure(config, created) ==
    IF config.given /\ config.client_email # "" /\ config.private_key # "" /\ created
    THEN [drive |-> [client_email |-> config.client_email, private_key |-> config.private_key],
          isConfigured |-> TRUE, result |-> [success |-> TRUE]]
    ELSE [drive |-> drive, isConfigured |-> driveConfigured, result |-> [success |-> FALSE]]

DriveConfigureCall(config, created) ==
    /\ mailPc # "boot"
    /\ drive' = DriveConfigure(config, created).drive
    /\ driveConfigured' = DriveConfigure(config, created).isConfigured
    /\ UNCHANGED <<transporter, isConfigured, recipients, mailIdx, results, errors,
                   mailPc, inFlight, mailLog, bulkResult>>
    /\ UNCHANGED <<callTransporter, cfgPc, cfgBody, cfgResponse, testResult>>
    /\ UNCHANGED <<batchVars, sanVars, pdfVars, upVars, docVars>>

(***************************************************************************)
(* One call of the sanitizer on an arbitrary name.                         *)
(***************************************************************************)
SanitizeApply ==
    /\ sanPc = "called"
    /\ sanOut' = OutputFileName(sanIn)
    /\ sanPc' = "done"
    /\ UNCHANGED <<sanIn, pdfVars, upVars, mailVars, docVars, batchVars>>

(***************************************************************************)
(* The placeholder scan over the slides of a deck.                         *)
(***************************************************************************)
\* Marks in a deck text: the text after a mark is the content of the next zip
\* entry, a slide (ppt/slides/slideN.xml) or any other entry.
SlideEntry == "<slide>"
OtherEntry == "<other>"

\* What a deck text is put together from.
Pieces ==
    { <<"{", "{", "n", "}", "}">>,
      <<"{", "{", " ", "n", " ", "}", "}">>,
      <<"{", "{", "N", "}", "}">>,
      <<"{", "{">>, <<"}", "}">>, <<"{">>, <<"}">>, <<"n">>, <<" ">>,
      <<SlideEntry>>, <<OtherEntry>> }

\* The zip entries of a deck written as a sequence of pieces; the text before
\* the first mark is a slide.
RECURSIVE EntriesOf(_, _, _)
EntriesOf(ps, k, acc) ==
    IF k > Len(ps) THEN acc
    ELSE IF ps[k] \in { <<SlideEntry>>, <<OtherEntry>> }
    THEN EntriesOf(ps, k + 1, Append(acc, [slide |-> ps[k] = <<SlideEntry>>, content |-> <<>>]))
    ELSE EntriesOf(ps, k + 1,
                   [acc EXCEPT ![Len(acc)].content = acc[Len(acc)].content \o ps[k]])

Decks == { EntriesOf(ps, 1, << [slide |-> TRUE, content |-> <<>>] >>) :
             ps \in SeqUpTo(Pieces, MaxPieces) }

\* The position of the first '}' of t at or after k; Len(t) + 1 when there is none.
RECURSIVE FirstClose(_, _)
FirstClose(t, k) ==
    IF k > Len(t) THEN Len(t) + 1
    ELSE IF t[k] = "}" THEN k
    ELSE FirstClose(t, k + 1)

\* /\{\{([^}]+)\}\}/ anchored at i: the position of the last character of the
\* match, 0 when there is none.  [^}]+ runs to the first '}', must be
\* non-empty, and must be followed by two '}'.
MatchEnd(t, i) ==
    IF i + 1 <= Len(t) /\ t[i] = "{" /\ t[i + 1] = "{"
    THEN LET j == FirstClose(t, i + 2)
         IN  IF j > i + 2 /\ j + 1 <= Len(t) /\ t[j + 1] = "}" THEN j + 1 ELSE 0
    ELSE 0

\* content.match(/\{\{([^}]+)\}\}/g): the matches, leftmost first, the search
\* resuming after each match.
RECURSIVE Matches(_, _)
Matches(t, i) ==
    IF i > Len(t) THEN <<>>
    ELSE IF MatchEnd(t, i) > 0
    THEN <<SubSeq(t, i, MatchEnd(t, i))>> \o Matches(t, MatchEnd(t, i) + 1)
    ELSE Matches(t, i + 1)

\* match.replace(/[{}]/g, '')
StripBraces(m) == SelectSeq(m, LAMBDA c : c \notin {"{", "}"})

\* String.prototype.trim
RECURSIVE Trim(_)
Trim(s) ==
    IF s = <<>> THEN s
    ELSE IF IsSpace(s[1]) THEN Trim(Tail(s))
    ELSE IF IsSpace(s[Len(s)]) THEN Trim(SubSeq(s, 1, Len(s) - 1))
    ELSE s

\* A collection that keeps every addition.
AddKeepingDuplicates(set, p) == Append(set, p)

\* Set.prototype.add, the set kept in insertion order.
SetAdd(set, p) == IF \E k \in DOMAIN set : set[k] = p THEN set ELSE Append(set, p)

\* matches.forEach(...): each match stripped of its braces and trimmed, added
\* when the outcome is a non-empty string.
RECURSIVE AddMatches(_, _, _)
AddMatches(set, ms, k) ==
    IF k > Len(ms) THEN set
    ELSE LET placeholder == Trim(StripBraces(ms[k]))
         IN  AddMatches(IF placeholder # <<>> THEN SetAdd(set, placeholder) ELSE set,
                        ms, k + 1)

\* new AdmZip(templatePath) and getEntries(): the entries are read, or the
\* constructor throws and the catch returns [].
ScanOpen ==
    /\ scanPc = "called"
    /\ placeholders' = <<>>
    /\ \/ scanPc' = "entries" /\ scanResult' = scanResult
       \/ scanPc' = "caught" /\ scanResult' = <<>>
    /\ UNCHANGED <<entries, entryIdx>>
    /\ UNCHANGED <<catVars, batchVars, sanVars, pdfVars, upVars, mailVars, resVars, ovVars>>

\* One call of the zipEntries.forEach callback.
ScanEntry ==
    /\ scanPc = "entries"
    /\ entryIdx <= Len(entries)
    /\ placeholders' =
          IF entries[entryIdx].slide
          THEN AddMatches(placeholders, Matches(entries[entryIdx].content, 1), 1)
          ELSE placeholders
    /\ entryIdx' = entryIdx + 1
    /\ UNCHANGED <<scanPc, entries, scanResult>>
    /\ UNCHANGED <<catVars, batchVars, sanVars, pdfVars, upVars, mailVars, resVars, ovVars>>

\* const result = Array.from(placeholders); return result
ScanReturn ==
    /\ scanPc = "entries"
    /\ entryIdx > Len(entries)
    /\ scanResult' = placeholders
    /\ scanPc' = "returned"
    /\ UNCHANGED <<entries, entryIdx, placeholders>>
    /\ UNCHANGED <<catVars, batchVars, sanVars, pdfVars, upVars, mailVars, resVars, ovVars>>

(***************************************************************************)
(* The field resolver of the deck renderer.                                *)
(***************************************************************************)
\* str.upper / str.lower on one character of the alphabet.
UpperChar(c) == IF c = "b" THEN "B" ELSE c
LowerChar(c) == IF c = "A" THEN "a" ELSE c

ToUpper(s) == [k \in DOMAIN s |-> UpperChar(s[k])]

\* A title-casing that lower-cases everything after the first letter of a word.
TitleCase(s) ==
    [k \in DOMAIN s |-> IF k = 1 \/ IsSpace(s[k - 1]) THEN UpperChar(s[k]) ELSE LowerChar(s[k])]

\* First letter upper-cased, the rest as written.
Capitalize(s) == [k \in DOMAIN s |-> IF k = 1 THEN UpperChar(s[k]) ELSE s[k]]

\* The placeholder names a deck is resolved for, and the batch-wide constants.
Tokens == {"name", "NAME", "Name", "course", "other"}
CourseValue == <<"7">>

\* resolve(recipient, placeholderName, mapping, batchOptions): the mapped
\* column's value when there is one, else the name in the token's case
\* variant, else the batch constant, else the empty string.
Resolve(name, token, mapped) ==
    IF mapped # <<>> THEN mapped
    ELSE IF token = "name" THEN name
    ELSE IF token = "NAME" THEN ToUpper(name)
    ELSE IF token = "Name" THEN Capitalize(name)
    ELSE IF token = "course" THEN CourseValue
    ELSE <<>>

ResolveApply ==
    /\ resPc = "called"
    /\ resValue' = Resolve(resName, resToken, resMapped)
    /\ resPc' = "done"
    /\ UNCHANGED <<resToken, resName, resMapped>>
    /\ UNCHANGED <<catVars, batchVars, sanVars, pdfVars, upVars, mailVars, scanVars, ovVars>>

(***************************************************************************)
(* PDFProcessor: analyzeTemplate and processAdvancedPage.  Lengths on the  *)
(* page are in points; font sizes are held in hundredths of a point and    *)
(* text widths in hundred-thousandths of a point, so that width / 20,      *)
(* width / 25 and glyph widths (thousandths of the font size) stay whole.  *)
(***************************************************************************)
PageWidths  == {420, 500, 501, 612, 842}
PageHeights == {595, 792}
PageSizes   == [width : PageWidths, height : PageHeights]

\* The pages of a template: at least one.
PageLists == SeqUpTo(PageSizes, MaxPages) \ {<<>>}

LongName == [k \in 1..LongNameLen |-> "A"]
OverlayNames == { <<"b", "A">>, <<"A", " ", "7">>, LongName }

\* The options a caller passes: none, the server's {fontSize: 24}, and the
\* sizes 0 and 48.
NoOptions == [k \in {} |-> 0]
CallerOptions == { NoOptions, [fontSize |-> 0], [fontSize |-> 2400], [fontSize |-> 4800] }

Min(a, b) == IF a <= b THEN a ELSE b

\* A size that grows with the width without a cap.
UncappedFontSize(width, height) == 5 * width

\* analysis.suggestedFontSize: Math.min(32, width / 20) for a page wider than
\* 500 and taller than 600, Math.min(24, width / 25) otherwise.
SuggestedFontSize(width, height) ==
    IF width > 500 /\ height > 600
    THEN Min(3200, 5 * width)
    ELSE Min(2400, 4 * width)

\* analysis.likelyNamePositions: x is width / 2 (held doubled), y a share of
\* the height (held in hundredths).
LikelyNamePositions(width, height) ==
    IF width > 500 /\ height > 600
    THEN << [x2 |-> width, y100 |-> 45 * height],
            [x2 |-> width, y100 |-> 50 * height],
            [x2 |-> width, y100 |-> 55 * height] >>
    ELSE << [x2 |-> width, y100 |-> 50 * height] >>

\* analyzeTemplate(pdfDoc): read off the first page.
AnalyzeTemplate(pgs) ==
    [pageWidth |-> pgs[1].width,
     pageHeight |-> pgs[1].height,
     likelyNamePositions |-> LikelyNamePositions(pgs[1].width, pgs[1].height),
     suggestedFontSize |-> SuggestedFontSize(pgs[1].width, pgs[1].height)]

NoAnalysis == [pageWidth |-> 0]

\* options.fontSize || analysis.suggestedFontSize: a missing size and the
\* size 0 are both falsy.
FontSizeOf(options, a) ==
    IF "fontSize" \in DOMAIN options /\ options.fontSize # 0
    THEN options.fontSize
    ELSE a.suggestedFontSize

\* Helvetica-Bold advance widths, in thousandths of the font size.
GlyphWidth(c) ==
    CASE c = "A" -> 722
      [] c = "b" -> 611
      [] c = "7" -> 556
      [] OTHER   -> 278

RECURSIVE GlyphSum(_)
GlyphSum(text) == IF text = <<>> THEN 0 ELSE GlyphWidth(Head(text)) + GlyphSum(Tail(text))

\* font.widthOfTextAtSize(text, size)
WidthOfTextAtSize(text, size) == GlyphSum(text) * size

\* page.drawText(data.name, {x, y, size, ...}) on page k: x is the x of the
\* primary position less half the text width (held doubled).
DrawText(k, pgs, name, options, a) ==
    LET fontSize  == FontSizeOf(options, a)
        textWidth == WidthOfTextAtSize(name, fontSize)
        primaryPosition == a.likelyNamePositions[1]
    IN  [page |-> k,
         pageWidth |-> pgs[k].width,
         size |-> fontSize,
         textWidth |-> textWidth,
         x2 |-> primaryPosition.x2 * 100000 - textWidth,
         y100 |-> primaryPosition.y100]

\* page.drawRectangle for the cover area of one position: 500 x 45, from
\* x - 250 (held doubled) and y - 20 (held in hundredths).
CoverRectangle(k, pos) ==
    [op |-> "drawRectangle", page |-> k,
     x2 |-> pos.x2 - 500, y100 |-> pos.y100 - 2000, width |-> 500, height |-> 45]

TextOp(k, pgs, name, options, a) ==
    [op |-> "drawText", page |-> k,
     x2 |-> DrawText(k, pgs, name, options, a).x2,
     y100 |-> DrawText(k, pgs, name, options, a).y100]

\* A page on which the name is drawn first and the covers are painted over it.
TextThenCovers(k, pgs, name, options, a) ==
    <<TextOp(k, pgs, name, options, a)>>
       \o [j \in DOMAIN a.likelyNamePositions |-> CoverRectangle(k, a.likelyNamePositions[j])]

\* The drawing calls of processAdvancedPage on page k, in the order made: the
\* for loop over the positions, then the one drawText.
PageOps(k, pgs, name, options, a) ==
    [j \in DOMAIN a.likelyNamePositions |-> CoverRectangle(k, a.likelyNamePositions[j])]
       \o <<TextOp(k, pgs, name, options, a)>>

\* fs.readFile, PDFDocument.load, embedCommonFonts and analyzeTemplate: the
\* analysis is there, or one of the awaits throws.
OvAnalyze ==
    /\ ovPc = "called"
    /\ \/ /\ analysis' = AnalyzeTemplate(pages)
          /\ ovPc' = "pages"
       \/ /\ analysis' = analysis
          /\ ovPc' = "threw"
    /\ UNCHANGED <<pages, pageIdx, ovName, ovOptions, drawn, canvas>>
    /\ UNCHANGED <<catVars, batchVars, sanVars, pdfVars, upVars, mailVars, scanVars, resVars>>

\* processAdvancedPage on the next page.
OvPage ==
    /\ ovPc = "pages"
    /\ pageIdx <= Len(pages)
    /\ drawn' = IF ovName # <<>>
                THEN Append(drawn, DrawText(pageIdx, pages, ovName, ovOptions, analysis))
                ELSE drawn
    /\ canvas' = IF ovName # <<>>
                 THEN canvas \o PageOps(pageIdx, pages, ovName, ovOptions, analysis)
                 ELSE canvas
    /\ pageIdx' = pageIdx + 1
    /\ UNCHANGED <<ovPc, pages, ovName, ovOptions, analysis>>
    /\ UNCHANGED <<catVars, batchVars, sanVars, pdfVars, upVars, mailVars, scanVars, resVars>>

\* pdfDoc.save() and fs.writeFile(outputPath, pdfBytes).
OvSave ==
    /\ ovPc = "pages"
    /\ pageIdx > Len(pages)
    /\ ovPc' \in {"saved", "threw"}
    /\ UNCHANGED <<pages, pageIdx, ovName, ovOptions, analysis, drawn, canvas>>
    /\ UNCHANGED <<catVars, batchVars, sanVars, pdfVars, upVars, mailVars, scanVars, resVars>>

(***************************************************************************)
(* server.js: batch directories.  POST /upload names its directory after   *)
(* the clock; the batch routes read and remove directories by the id in    *)
(* the URL.                                                                *)
(***************************************************************************)
\* `batch-${timestamp}`
BatchId(t) == <<"batch-", t>>

\* The path segment '..': path.join('./generated', '..') is the application
\* directory itself.
ParentDir == <<"..">>

\* The ids a client asks for.
AskedIds == { BatchId(t) : t \in 1..MaxClock } \cup {ParentDir}

\* The upload requests in flight and the one certificate each of them writes.
UploadRequests == {"r1", "r2"}
FileOf(r) == IF r = "r1" THEN "certificate-A.pdf" ELSE "certificate-b.pdf"
AskedFiles == { FileOf(r) : r \in UploadRequests }

NoUpload == [pc |-> "idle", id |-> <<>>]
NoApiResponse == [route |-> "", id |-> <<>>, file |-> "", status |-> 0, body |-> {}]

\* An id that is this request's alone.
IdPerRequest(t, r) == <<"batch-", t, r>>

\* const timestamp = Date.now(); path.join('./generated', `batch-${timestamp}`)
NewBatchId(t, r) == BatchId(t)

\* fs.pathExists(path.join('./generated', batchId))
PathExists(id) ==
    IF id = ParentDir THEN genDir ELSE genDir /\ id \in batchDirs

\* The files of a batch directory.
FilesIn(id) == { f.file : f \in { g \in batchFiles : g.dir = id } }

\* The clock moves on by a millisecond.
Tick ==
    /\ now < MaxClock
    /\ now' = now + 1
    /\ UNCHANGED <<genDir, batchDirs, batchFiles, upReq, apiResponse>>
    /\ UNCHANGED <<sanVars, pdfVars, upVars, mailVars, docVars>>

\* POST /upload up to its first await after the names: the timestamp is read
\* and the directory ensured.
UploadEnsureDir(r) ==
    /\ upReq[r].pc = "idle"
    /\ upReq' = [upReq EXCEPT ![r] = [pc |-> "dir", id |-> NewBatchId(now, r)]]
    /\ genDir' = TRUE
    /\ batchDirs' = batchDirs \cup {NewBatchId(now, r)}
    /\ UNCHANGED <<now, batchFiles, apiResponse>>
    /\ UNCHANGED <<sanVars, pdfVars, upVars, mailVars, docVars>>

\* generateCertificates for the request: the directory is ensured again and the
\* certificate written into it; the response then names the batch id.
UploadGenerate(r) ==
    /\ upReq[r].pc = "dir"
    /\ genDir' = TRUE
    /\ batchDirs' = batchDirs \cup {upReq[r].id}
    /\ batchFiles' = { f \in batchFiles : ~(f.dir = upReq[r].id /\ f.file = FileOf(r)) }
                        \cup { [dir |-> upReq[r].id, file |-> FileOf(r), by |-> r] }
    /\ upReq' = [upReq EXCEPT ![r].pc = "done"]
    /\ UNCHANGED <<now, apiResponse>>
    /\ UNCHANGED <<sanVars, pdfVars, upVars, mailVars, docVars>>

\* DELETE /batches/:batchId.  For the id '..' the path is the application
\* directory: fs.remove empties it, and answers 200, or 500 when removing the
\* working directory itself is refused.
DeleteBatch(id) ==
    /\ IF PathExists(id)
       THEN /\ IF id = ParentDir
               THEN genDir' = FALSE /\ batchDirs' = {} /\ batchFiles' = {}
               ELSE /\ genDir' = genDir
                    /\ batchDirs' = batchDirs \ {id}
                    /\ batchFiles' = { f \in batchFiles : f.dir # id }
            /\ \E st \in (IF id = ParentDir THEN {200, 500} ELSE {200}) :
                  apiResponse' = [route |-> "DELETE /batches/:batchId", id |-> id,
                                  file |-> "", status |-> st, body |-> {}]
       ELSE /\ UNCHANGED <<genDir, batchDirs, batchFiles>>
            /\ apiResponse' = [route |-> "DELETE /batches/:batchId", id |-> id, file |-> "",
                               status |-> 404, body |-> {}]
    /\ UNCHANGED <<now, upReq>>
    /\ UNCHANGED <<sanVars, pdfVars, upVars, mailVars, docVars>>

\* GET /batches/:batchId
GetBatch(id) ==
    /\ apiResponse' =
          IF PathExists(id)
          THEN [route |-> "GET /batches/:batchId", id |-> id, file |-> "", status |-> 200,
                body |-> IF id = ParentDir THEN {"generated"} ELSE FilesIn(id)]
          ELSE [route |-> "GET /batches/:batchId", id |-> id, file |-> "", status |-> 404,
                body |-> {}]
    /\ UNCHANGED <<now, genDir, batchDirs, batchFiles, upReq>>
    /\ UNCHANGED <<sanVars, pdfVars, upVars, mailVars, docVars>>

\* GET /download/:batchId/:filename
Download(id, file) ==
    /\ apiResponse' =
          IF genDir /\ id # ParentDir /\ id \in batchDirs /\ file \in FilesIn(id)
          THEN [route |-> "GET /download/:batchId/:filename", id |-> id, file |-> file,
                status |-> 200, body |-> {file}]
          ELSE [route |-> "GET /download/:batchId/:filename", id |-> id, file |-> file,
                status |-> 404, body |-> {}]
    /\ UNCHANGED <<now, genDir, batchDirs, batchFiles, upReq>>
    /\ UNCHANGED <<sanVars, pdfVars, upVars, mailVars, docVars>>

\* GET /batches: the directories under ./generated; readdir of a missing
\* ./generated throws.
ListBatches ==
    /\ apiResponse' =
          IF genDir
          THEN [route |-> "GET /batches", id |-> <<>>, file |-> "", status |-> 200,
                body |-> batchDirs]
          ELSE [route |-> "GET /batches", id |-> <<>>, file |-> "", status |-> 500, body |-> {}]
    /\ UNCHANGED <<now, genDir, batchDirs, batchFiles, upReq>>
    /\ UNCHANGED <<sanVars, pdfVars, upVars, mailVars, docVars>>

(***************************************************************************)
(* CanvaIntegration.searchTemplates and GET /canva/templates.              *)
(***************************************************************************)
\* this.mockTemplates: id, title, description and category of each entry.
MockTemplates ==
    << [id |-> "cert-professional-001",
       title |-> <<"P", "r", "o", "f", "e", "s", "s", "i", "o", "n", "a", "l",
                 " ", "C", "e", "r", "t", "i", "f", "i", "c", "a", "t", "e">>,
       description |->
         <<"C", "l", "e", "a", "n", " ", "a", "n", "d", " ", "p", "r", "o",
         "f", "e", "s", "s", "i", "o", "n", "a", "l", " ", "d", "e", "s", "i",
         "g", "n", " ", "w", "i", "t", "h", " ", "e", "l", "e", "g", "a", "n",
         "t", " ", "b", "o", "r", "d", "e", "r", "s">>,
       category |-> <<"P", "r", "o", "f", "e", "s", "s", "i", "o", "n", "a",
                    "l">>],
       [id |-> "cert-modern-002",
       title |-> <<"M", "o", "d", "e", "r", "n", " ", "A", "c", "h", "i", "e",
                 "v", "e", "m", "e", "n", "t">>,
       description |->
         <<"C", "o", "n", "t", "e", "m", "p", "o", "r", "a", "r", "y", " ",
         "d", "e", "s", "i", "g", "n", " ", "w", "i", "t", "h", " ", "g", "r",
         "a", "d", "i", "e", "n", "t", " ", "b", "a", "c", "k", "g", "r", "o",
         "u", "n", "d", "s">>,
       category |-> <<"M", "o", "d", "e", "r", "n">>],
       [id |-> "cert-classic-003",
       title |-> <<"C", "l", "a", "s", "s", "i", "c", " ", "D", "i", "p", "l",
                 "o", "m", "a">>,
       description |->
         <<"T", "r", "a", "d", "i", "t", "i", "o", "n", "a", "l", " ", "d",
         "i", "p", "l", "o", "m", "a", " ", "s", "t", "y", "l", "e", " ", "w",
         "i", "t", "h", " ", "f", "o", "r", "m", "a", "l", " ", "l", "a", "y",
         "o", "u", "t">>,
       category |-> <<"C", "l", "a", "s", "s", "i", "c">>],
       [id |-> "cert-creative-004",
       title |-> <<"C", "r", "e", "a", "t", "i", "v", "e", " ", "C", "e", "r",
                 "t", "i", "f", "i", "c", "a", "t", "e">>,
       description |->
         <<"A", "r", "t", "i", "s", "t", "i", "c", " ", "d", "e", "s", "i",
         "g", "n", " ", "w", "i", "t", "h", " ", "c", "r", "e", "a", "t", "i",
         "v", "e", " ", "e", "l", "e", "m", "e", "n", "t", "s">>,
       category |-> <<"C", "r", "e", "a", "t", "i", "v", "e">>],
       [id |-> "cert-corporate-005",
       title |-> <<"C", "o", "r", "p", "o", "r", "a", "t", "e", " ", "T", "r",
                 "a", "i", "n", "i", "n", "g">>,
       description |->
         <<"P", "r", "o", "f", "e", "s", "s", "i", "o", "n", "a", "l", " ",
         "c", "o", "r", "p", "o", "r", "a", "t", "e", " ", "t", "r", "a", "i",
         "n", "i", "n", "g", " ", "c", "e", "r", "t", "i", "f", "i", "c", "a",
         "t", "e">>,
       category |-> <<"C", "o", "r", "p", "o", "r", "a", "t", "e">>],
       [id |-> "cert-academic-006",
       title |-> <<"A", "c", "a", "d", "e", "m", "i", "c", " ", "E", "x", "c",
                 "e", "l", "l", "e", "n", "c", "e">>,
       description |->
         <<"A", "c", "a", "d", "e", "m", "i", "c", " ", "a", "c", "h", "i",
         "e", "v", "e", "m", "e", "n", "t", " ", "c", "e", "r", "t", "i", "f",
         "i", "c", "a", "t", "e", " ", "w", "i", "t", "h", " ", "s", "c", "h",
         "o", "l", "a", "r", "l", "y", " ", "d", "e", "s", "i", "g", "n">>,
       category |-> <<"A", "c", "a", "d", "e", "m", "i", "c">>] >>

UpperLetters == <<"A", "B", "C", "D", "E", "F", "G", "H", "I", "J", "K", "L", "M",
                  "N", "O", "P", "Q", "R", "S", "T", "U", "V", "W", "X", "Y", "Z">>
LowerLetters == <<"a", "b", "c", "d", "e", "f", "g", "h", "i", "j", "k", "l", "m",
                  "n", "o", "p", "q", "r", "s", "t", "u", "v", "w", "x", "y", "z">>

\* String.prototype.toLowerCase on a string held as its characters.
LowerCase(str) ==
    [k \in DOMAIN str |->
        IF \E j \in DOMAIN UpperLetters : UpperLetters[j] = str[k]
        THEN LowerLetters[CHOOSE j \in DOMAIN UpperLetters : UpperLetters[j] = str[k]]
        ELSE str[k]]

\* String.prototype.includes
Includes(str, part) ==
    \E i \in 0..(Len(str) - Len(part)) : SubSeq(str, i + 1, i + Len(part)) = part

\* The filter callback of the search query.
MatchesQuery(t, query) ==
    LET searchTerm == LowerCase(query)
    IN  \/ Includes(LowerCase(t.title), searchTerm)
        \/ Includes(LowerCase(t.description), searchTerm)
        \/ Includes(LowerCase(t.category), searchTerm)

\* The filter callback of the category.
InCategory(t, category) == LowerCase(t.category) = LowerCase(category)

\* The two filters of searchTemplates, each applied only for a non-empty string.
FilterTemplates(query, category) ==
    LET byQuery == IF query # <<>>
                   THEN SelectSeq(MockTemplates, LAMBDA t : MatchesQuery(t, query))
                   ELSE MockTemplates
    IN  IF category # <<>>
        THEN SelectSeq(byQuery, LAMBDA t : InCategory(t, category))
        ELSE byQuery

Max(a, b) == IF a >= b THEN a ELSE b

\* How slice reads an index: a negative one counts from the end, and the
\* outcome is held within 0..len.
RelativeIndex(i, len) == IF i < 0 THEN Max(len + i, 0) ELSE Min(i, len)

\* A slice that takes the element at its end index too.
SliceThroughEnd(arr, start, end) ==
    LET from == RelativeIndex(start, Len(arr))
        to   == Min(RelativeIndex(end, Len(arr)) + 1, Len(arr))
    IN  IF to > from THEN SubSeq(arr, from + 1, to) ELSE <<>>

\* Array.prototype.slice(start, end)
Slice(arr, start, end) ==
    LET from == RelativeIndex(start, Len(arr))
        to   == RelativeIndex(end, Len(arr))
    IN  IF to > from THEN SubSeq(arr, from + 1, to) ELSE <<>>

\* searchTemplates({query, category, limit, offset})
SearchTemplates(options) ==
    LET templates == FilterTemplates(options.query, options.category)
        total     == Len(templates)
    IN  [success |-> TRUE,
         templates |-> Slice(templates, options.offset, options.offset + options.limit),
         total |-> total,
         limit |-> options.limit,
         offset |-> options.offset,
         hasMore |-> options.offset + options.limit < total]

\* The search and category strings of a request; the empty one also stands
\* for a parameter that is not sent.
SearchStrings ==
    { <<>>, <<"c", "e", "r", "t">>, <<"D", "E", "S", "I", "G", "N">>,
      <<"p", "r", "o">>, <<"z", "z">> }
CategoryStrings ==
    { <<>>, <<"m", "o", "d", "e", "r", "n">>, <<"C", "o", "r", "p", "o", "r", "a", "t", "e">>,
      <<"c", "e", "r", "t">> }

\* What parseInt makes of the limit and offset parameters: NaN for a missing
\* or non-numeric one, else the integer.
NaN == [nan |-> TRUE, n |-> 0]
Parsed(n) == [nan |-> FALSE, n |-> n]
ParsedLimits  == {NaN} \cup { Parsed(n) : n \in -1..MaxLimit }
ParsedOffsets == {NaN} \cup { Parsed(n) : n \in -1..MaxOffset }

DefaultLimit == 20

\* parsed || fallback: NaN and 0 are falsy.
OrDefault(parsed, fallback) == IF parsed.nan \/ parsed.n = 0 THEN fallback ELSE parsed.n

NoSearchOptions == [query |-> <<>>, category |-> <<>>, limit |-> 0, offset |-> 0]
NoSearchResult == [success |-> FALSE, templates |-> <<>>, total |-> 0, limit |-> 0,
                   offset |-> 0, hasMore |-> FALSE]

\* GET /canva/templates: the options handed to searchTemplates.
CanvaTemplatesRequest(search, category, limit, offset) ==
    /\ catPc = "idle"
    /\ searchOptions' = [query |-> search, category |-> category,
                         limit |-> OrDefault(limit, DefaultLimit),
                         offset |-> OrDefault(offset, 0)]
    /\ catPc' = "called"
    /\ UNCHANGED searchResult
    /\ UNCHANGED <<sanVars, pdfVars, upVars, mailVars, scanVars, resVars, ovVars, batchVars>>

\* await canvaIntegration.searchTemplates(...) and res.json(result)
CanvaTemplatesRespond ==
    /\ catPc = "called"
    /\ searchResult' = SearchTemplates(searchOptions)
    /\ catPc' = "responded"
    /\ UNCHANGED searchOptions
    /\ UNCHANGED <<sanVars, pdfVars, upVars, mailVars, scanVars, resVars, ovVars, batchVars>>

(***************************************************************************)
(* Initial states and specifications.                                      *)
(***************************************************************************)
ScanIdle ==
    /\ scanPc = "idle" /\ entries = <<>> /\ entryIdx = 1
    /\ placeholders = <<>> /\ scanResult = <<>>

ResIdle ==
    /\ resPc = "idle" /\ resToken = "" /\ resName = <<>>
    /\ resMapped = <<>> /\ resValue = <<>>

OvIdle ==
    /\ ovPc = "idle" /\ pages = <<>> /\ pageIdx = 1 /\ ovName = <<>>
    /\ ovOptions = NoOptions /\ analysis = NoAnalysis /\ drawn = <<>>
    /\ canvas = <<>>

BatchIdle ==
    /\ now = 1 /\ genDir = TRUE /\ batchDirs = {} /\ batchFiles = {}
    /\ upReq = [r \in UploadRequests |-> NoUpload]
    /\ apiResponse = NoApiResponse

CatIdle ==
    /\ catPc = "idle" /\ searchOptions = NoSearchOptions /\ searchResult = NoSearchResult

DocIdle == ScanIdle /\ ResIdle /\ OvIdle /\ BatchIdle /\ CatIdle

SanIdle ==
    /\ sanPc = "idle" /\ sanIn = <<>> /\ sanOut = <<>>

PdfIdle ==
    /\ names = <<>> /\ faults = <<>> /\ idx = 1 /\ generatedFiles = <<>>
    /\ attempts = <<>> /\ pdfPc = "idle" /\ outputDir = ""
    /\ fsys = NoFiles /\ dirs = {}

UpIdle ==
    /\ upPc = "idle" /\ sheet = <<>> /\ template = [mimetype |-> "", ext |-> ""]
    /\ response = NoResponse /\ rendered = <<>> /\ pyOutcome = "none"
    /\ reqDate = Undefined /\ additionalOptions = [date |-> NoDate] /\ rendererDate = NoDate

MailIdle ==
    /\ transporter = NullTransporter /\ isConfigured = FALSE
    /\ callTransporter = NullTransporter
    /\ cfgPc = "idle" /\ cfgBody = NoBody /\ cfgResponse = NoCfgResponse
    /\ testResult = NoTestResult
    /\ drive = NullDrive /\ driveConfigured = FALSE
    /\ recipients = <<>> /\ mailIdx = 1 /\ results = <<>> /\ errors = <<>>
    /\ mailPc = "idle" /\ inFlight = 0 /\ mailLog = <<>>
    /\ bulkResult = NoBulkResult

\* The server after start-up, serving one POST /upload.
Init == SanIdle /\ PdfIdle /\ UpIdle /\ MailIdle /\ DocIdle

Next ==
    \/ UploadRequest
    \/ ExtractData
    \/ CreateBatchDir
    \/ Dispatch
    \/ PptxRun
    \/ PdfStart
    \/ PdfRenderStep
    \/ PdfReturn
    \/ PdfDone
    \/ Respond

Spec == Init /\ [][Next]_vars

\* PDFProcessor.generateCertificates called on any recipient list, with any
\* outcome of each render, on a directory that does not exist yet.
PdfInit ==
    /\ SanIdle /\ UpIdle /\ MailIdle /\ DocIdle
    /\ names \in SeqUpTo(BatchNames, MaxNames)
    /\ faults \in [DOMAIN names -> RenderOutcomes]
    /\ idx = 1 /\ generatedFiles = <<>> /\ attempts = <<>>
    /\ pdfPc = "called" /\ outputDir = BatchDir
    /\ fsys = UploadedFiles /\ dirs = {}

PdfNext == PdfStart \/ PdfRenderStep \/ PdfReturn

\* The event loop runs an async function on whenever what it awaits has settled.
PdfSpec == PdfInit /\ [][PdfNext]_vars /\ WF_vars(PdfNext)

\* The sanitizer on every name over the alphabet, up to MaxLen characters.
SanInit ==
    /\ PdfIdle /\ UpIdle /\ MailIdle /\ DocIdle
    /\ sanPc = "called" /\ sanOut = <<>>
    /\ sanIn \in SeqUpTo(Alphabet, MaxLen)

SanNext == SanitizeApply

SanSpec == SanInit /\ [][SanNext]_vars

\* The services as constructed, the server about to start, and one
\* sendBulkCertificates call to come on any recipient list; meanwhile the
\* configuration routes are served.
MailInit ==
    /\ SanIdle /\ PdfIdle /\ UpIdle /\ DocIdle
    /\ isConfigured = FALSE /\ transporter = NullTransporter
    /\ callTransporter = NullTransporter
    /\ cfgPc = "idle" /\ cfgBody = NoBody /\ cfgResponse = NoCfgResponse
    /\ testResult = NoTestResult
    /\ drive = NullDrive /\ driveConfigured = FALSE
    /\ recipients \in SeqUpTo(MailRecipients, MaxRecipients)
    /\ mailIdx = 1 /\ results = <<>> /\ errors = <<>>
    /\ mailPc = "boot" /\ inFlight = 0 /\ mailLog = <<>>
    /\ bulkResult = NoBulkResult

MailNext ==
    \/ \E env \in Environments, created \in BOOLEAN : ConfigureFromEnv(env, created)
    \/ BulkCall
    \/ SendCertificateCall
    \/ SendSettles
    \/ DelayElapses
    \/ BulkReturn
    \/ \E body \in ConfigBodies, created \in BOOLEAN : ConfigureEmailRequest(body, created)
    \/ \E verified \in BOOLEAN : ConfigureEmailTested(verified)
    \/ \E verified \in BOOLEAN : TestEmail(verified)
    \/ \E config \in DriveConfigs, created \in BOOLEAN : DriveConfigureCall(config, created)

MailSpec == MailInit /\ [][MailNext]_vars

\* The scan called on any deck.
ScanInit ==
    /\ SanIdle /\ PdfIdle /\ UpIdle /\ MailIdle /\ ResIdle /\ OvIdle /\ BatchIdle /\ CatIdle
    /\ scanPc = "called"
    /\ entries \in Decks
    /\ entryIdx = 1 /\ placeholders = <<>> /\ scanResult = <<>>

ScanNext == ScanOpen \/ ScanEntry \/ ScanReturn

ScanSpec == ScanInit /\ [][ScanNext]_vars

\* The resolver called for any name, any placeholder, with and without a
\* mapped value.
ResInit ==
    /\ SanIdle /\ PdfIdle /\ UpIdle /\ MailIdle /\ ScanIdle /\ OvIdle /\ BatchIdle /\ CatIdle
    /\ resPc = "called"
    /\ resToken \in Tokens
    /\ resName \in SeqUpTo(Alphabet, MaxLen)
    /\ resMapped \in {<<>>, <<"_">>}
    /\ resValue = <<>>

ResNext == ResolveApply

ResSpec == ResInit /\ [][ResNext]_vars

\* processAdvancedPDFTemplate called on any template, name and options.
OvInit ==
    /\ SanIdle /\ PdfIdle /\ UpIdle /\ MailIdle /\ ScanIdle /\ ResIdle /\ BatchIdle /\ CatIdle
    /\ ovPc = "called"
    /\ pages \in PageLists
    /\ ovName \in OverlayNames
    /\ ovOptions \in CallerOptions
    /\ pageIdx = 1 /\ analysis = NoAnalysis /\ drawn = <<>> /\ canvas = <<>>

OvNext == OvAnalyze \/ OvPage \/ OvSave

OvSpec == OvInit /\ [][OvNext]_vars

\* The server after start-up (ensureDir('./generated') done), taking uploads
\* and batch requests in any interleaving.
BatchInit ==
    /\ SanIdle /\ PdfIdle /\ UpIdle /\ MailIdle /\ DocIdle

BatchNext ==
    \/ Tick
    \/ \E r \in UploadRequests : UploadEnsureDir(r)
    \/ \E r \in UploadRequests : UploadGenerate(r)
    \/ \E id \in AskedIds : DeleteBatch(id)
    \/ \E id \in AskedIds : GetBatch(id)
    \/ \E id \in AskedIds, file \in AskedFiles : Download(id, file)
    \/ ListBatches

BatchSpec == BatchInit /\ [][BatchNext]_vars

\* The server after start-up, serving one GET /canva/templates.
CatInit ==
    /\ SanIdle /\ PdfIdle /\ UpIdle /\ MailIdle /\ DocIdle

CatNext ==
    \/ \E search \in SearchStrings, category \in CategoryStrings,
          limit \in ParsedLimits, offset \in ParsedOffsets :
             CanvaTemplatesRequest(search, category, limit, offset)
    \/ CanvaTemplatesRespond

CatSpec == CatInit /\ [][CatNext]_vars

(***************************************************************************)
(* Properties.                                                             *)
(***************************************************************************)
Range(f) == { f[k] : k \in DOMAIN f }

\* The positions before position k whose render succeeds, in input order.
OkPositionsBefore(k) ==
    SelectSeq([j \in 1..(k - 1) |-> j], LAMBDA j : faults[j] = "ok")

\* C1: PDF batch isolation.  Whatever subset of the renders fails, the loop is
\* never left by an exception, and what it has collected (and finally returns)
\* is exactly one GeneratedFile for each recipient rendered so far whose render
\* succeeded, in input order; a failure at one position does not keep any later
\* position from being rendered.
C1_PdfBatchIsolation ==
    /\ attempts # <<>> => pdfPc # "threw"
    /\ pdfPc \in {"loop", "returned"} =>
         LET okIdx == OkPositionsBefore(idx)
         IN  generatedFiles =
                [r \in DOMAIN okIdx |-> GeneratedFile(outputDir, names[okIdx[r]])]
    /\ pdfPc = "returned" => idx = Len(names) + 1

\* A batch of three whose second render failed and whose first and third are returned.
C1_Witness ==
    /\ pdfPc = "returned"
    /\ Len(names) = 3
    /\ faults[1] = "ok" /\ faults[2] = "writeFail" /\ faults[3] = "ok"
    /\ Len(generatedFiles) = 2
    /\ generatedFiles[2].name = names[3]

\* C3: the PDF batch loop terminates, and the positions attempted are 1, 2, ...
\* in input order, each exactly once: none retried after a failure, none
\* skipped, and all of them attempted by the time the loop returns.
C3_PdfLoopAttemptsEachOnce ==
    /\ [](/\ attempts = [k \in 1..Len(attempts) |-> k]
          /\ pdfPc = "returned" => Len(attempts) = Len(names))
    /\ <>(pdfPc \in {"returned", "threw"})

\* A returned batch of three with a failed render in the middle.
C3_Witness ==
    /\ pdfPc = "returned"
    /\ attempts = <<1, 2, 3>>
    /\ faults[2] = "parseFail"

\* C7 (as claimed): any two recipients at different positions (here: of different
\* names) whose renders succeeded were written to different output paths, and the file every returned
\* GeneratedFile names holds that recipient's own certificate.
C7_DistinctOutputPaths ==
    /\ \A j, k \in Range(attempts) :
         (names[j] # names[k] /\ faults[j] = "ok" /\ faults[k] = "ok")
            => OutputPath(outputDir, names[j]) # OutputPath(outputDir, names[k])
    /\ \A r \in DOMAIN generatedFiles :
         /\ generatedFiles[r].path \in DOMAIN fsys
         /\ fsys[generatedFiles[r].path] = CertificateFor(generatedFiles[r].name)

IndexPermutations(n) ==
    { p \in [1..n -> 1..n] : \A a, b \in 1..n : p[a] = p[b] => a = b }

\* C8 (as claimed): when the batch has returned, running it on any permutation
\* of the recipient list (each recipient keeping its render outcome) would leave
\* the same files with the same contents and the same set of GeneratedFile entries.
C8_OrderIndependence ==
    pdfPc = "returned" =>
        \A p \in IndexPermutations(Len(names)) :
            LET r == RunBatch(outputDir,
                              [k \in DOMAIN names |-> names[p[k]]],
                              [k \in DOMAIN names |-> faults[p[k]]])
            IN  /\ r.fs = fsys
                /\ Range(r.gen) = Range(generatedFiles)

\* C2 (as claimed): deck batch isolation.  When the helper fails for some
\* recipient of a .pptx batch, the list of generated files in the response to
\* /upload still holds an entry for every recipient the helper could render.
C2_DeckBatchIsolation ==
    ( /\ upPc = "responded"
      /\ response.status = 200
      /\ ToLowerCase(template.ext) = ".pptx"
      /\ \E j \in DOMAIN names : faults[j] # "ok" )
    => \A k \in DOMAIN names :
          faults[k] = "ok" =>
             \E r \in DOMAIN response.generatedFiles :
                 response.generatedFiles[r].name = names[k]

\* The error records of a response; a response without the field reports none.
ReportedErrors(r) == IF "errors" \in DOMAIN r THEN r.errors ELSE <<>>

\* C4 (as claimed): batch result accounting.  In the response to a .pdf batch the
\* generated files and the reported per-recipient errors add up to the number
\* of recipients, so a batch with failed recipients is never a plain success.
C4_BatchResultAccounting ==
    ( /\ upPc = "responded"
      /\ response.status = 200
      /\ ToLowerCase(template.ext) = ".pdf" )
    => Len(response.generatedFiles) + Len(ReportedErrors(response))
          = Len(response.names)

\* C5 (as claimed): a template whose lower-cased extension is neither .pptx nor
\* .pdf, whether or not the upload filter let it in by its MIME type, gets an
\* error response and no renderer runs.
C5_UnsupportedTemplateSurfaced ==
    ( /\ upPc = "responded"
      /\ ToLowerCase(template.ext) \notin {".pptx", ".pdf"} )
    => /\ response.status >= 400
       /\ attempts = <<>>
       /\ pyOutcome = "none"

\* No row of the sheet has a cell under any of the recognized name headers.
SheetHasNoNameColumn(data) ==
    \A k \in DOMAIN data : DOMAIN data[k] \cap Range(NameColumns) = {}

\* The recognized header of highest priority that the first row has a cell under.
RecognizedColumn(data) ==
    NameColumns[CHOOSE k \in DOMAIN NameColumns :
                   /\ NameColumns[k] \in DOMAIN data[1]
                   /\ \A j \in 1..(k - 1) : NameColumns[j] \notin DOMAIN data[1]]

\* Every row has, under the recognized name header, no cell or a blank one.
SheetYieldsNoRecipients(data) ==
    /\ ~SheetHasNoNameColumn(data)
    /\ DOMAIN data[1] \cap Range(NameColumns) # {}
    /\ \A k \in DOMAIN data :
          \/ RecognizedColumn(data) \notin DOMAIN data[k]
          \/ \A c \in Range(data[k][RecognizedColumn(data)]) : c \in WhitespaceChars

\* C6: when the spreadsheet has no recognized name column, or yields no
\* recipient after filtering, the handler's step from the received request is
\* an error response, with no batch directory created and no renderer started;
\* and no error response is ever preceded by a render.
C6_NoRecipientsAbortBeforeRendering ==
    [][ /\ ( /\ upPc = "received"
             /\ (SheetHasNoNameColumn(sheet) \/ SheetYieldsNoRecipients(sheet)) )
           => /\ upPc' = "responded"
              /\ response'.status \in {400, 500}
              /\ dirs' = {}
              /\ pdfPc' = "idle" /\ attempts' = <<>> /\ pyOutcome' = "none"
        /\ (upPc' = "responded" /\ response'.status >= 400)
           => (pdfPc' = "idle" /\ attempts' = <<>> /\ pyOutcome' = "none")
      ]_vars

\* A sheet with a name column whose only cells are blank was answered with
\* 'No names found', nothing created.
C6_Witness ==
    /\ upPc = "responded"
    /\ response = ErrorResponse(400, "No names found in the Excel file")
    /\ Len(sheet) = 2
    /\ dirs = {}
    /\ pdfPc = "idle"

\* The part of an output file name between 'certificate-' and '.pdf'.
SafePart(out) == SubSeq(out, 2, Len(out) - 1)

\* C9 (as claimed): the output file name is 'certificate-' + s + '.pdf' where s
\* is the name with every character outside [A-Za-z0-9 ] (letters, digits and
\* the space) removed and then every run of whitespace replaced by one underscore.
C9_SanitizeAsClaimed ==
    sanPc = "done" =>
        sanOut = <<"certificate-">>
                   \o CollapseWhitespace(
                         SelectSeq(sanIn, LAMBDA c : c \in AlnumChars \cup {" "}))
                   \o <<".pdf">>

\* The number of letters and digits of s before position k.
AlnumBefore(s, k) == Cardinality({ j \in 1..(k - 1) : s[j] \in AlnumChars })

\* The positions of name at which a run of whitespace starts once the characters
\* that are neither alphanumeric nor whitespace are left out: a whitespace
\* character whose nearest earlier character of either class, if any, is
\* alphanumeric.
RunStarts(name) ==
    { k \in DOMAIN name :
        /\ name[k] \in WhitespaceChars
        /\ \A j \in 1..(k - 1) :
              name[j] \in WhitespaceChars
                 => \E m \in (j + 1)..(k - 1) : name[m] \in AlnumChars }

\* C9 (amended): the output file name is 'certificate-' + s + '.pdf' where s is
\* the name with every character that is neither a letter, a digit nor
\* whitespace removed (a tab or other whitespace survives that pass like the
\* space) and then every run of whitespace replaced by one underscore: s holds
\* only letters, digits and underscores, its letters and digits are those of
\* the name in order, no two underscores are adjacent, and there is one
\* underscore for each whitespace run, with the same letters and digits before it.
C9_SanitizeAmended ==
    sanPc = "done" =>
        LET s == SafePart(sanOut)
        IN  /\ Len(sanOut) >= 2
            /\ Head(sanOut) = "certificate-"
            /\ sanOut[Len(sanOut)] = ".pdf"
            /\ \A k \in DOMAIN s : s[k] \in AlnumChars \cup {"_"}
            /\ SelectSeq(s, LAMBDA c : c \in AlnumChars)
                  = SelectSeq(sanIn, LAMBDA c : c \in AlnumChars)
            /\ \A k \in 1..(Len(s) - 1) : ~(s[k] = "_" /\ s[k + 1] = "_")
            /\ Cardinality({ k \in DOMAIN s : s[k] = "_" }) = Cardinality(RunStarts(sanIn))
            /\ { AlnumBefore(s, k) : k \in { j \in DOMAIN s : s[j] = "_" } }
                  = { AlnumBefore(sanIn, k) : k \in RunStarts(sanIn) }

\* A name with a stripped character, a tab and a letter has been sanitized.
C9_Witness ==
    /\ sanPc = "done"
    /\ sanIn = <<"b", "'", "\t">>
    /\ sanOut = <<"certificate-", "b", "_", ".pdf">>

\* C10 (as claimed): at most one send is in flight, and every send attempt but
\* the first starts right after the inter-message delay has elapsed, whether
\* the attempt before it succeeded or failed.
C10_SendsSerializedWithDelay ==
    /\ inFlight <= 1
    /\ \A k \in 2..Len(mailLog) :
          mailLog[k].ev = "sendStart" =>
             /\ mailLog[k - 1].ev = "delayElapsed"
             /\ mailLog[k - 1].ms = DelayMs

\* The events of the mail log of the given kinds, in order.
LogOf(kinds) == SelectSeq(mailLog, LAMBDA e : e.ev \in kinds)

\* C11: email delivery tolerance.  The recipients are attempted at positions
\* 1, 2, ... in input order, each once; once the call has returned every
\* position has been attempted; and every failed attempt, and nothing else, is
\* on the error list, in order, under its recipient's name and address.
C11_EmailDeliveryTolerance ==
    LET tried  == LogOf({"sendStart", "notConfigured"})
        failed == LogOf({"sendFail", "notConfigured"})
    IN  /\ \A k \in DOMAIN tried : tried[k].pos = k
        /\ mailPc = "returned" => Len(tried) = Len(recipients)
        /\ Len(errors) = Len(failed)
        /\ \A k \in DOMAIN failed :
              /\ errors[k].name  = recipients[failed[k].pos].name
              /\ errors[k].email = recipients[failed[k].pos].email

\* A returned call on three recipients whose first delivery failed and whose
\* second and third went out.
C11_Witness ==
    /\ mailPc = "returned"
    /\ Len(recipients) = 3
    /\ LogOf({"sendFail", "sendOk"})
          = <<LogEvent("sendFail", 1), LogEvent("sendOk", 2), LogEvent("sendOk", 3)>>
    /\ Len(errors) = 1

\* C12: email result accounting.  The returned object has sent = |results|,
\* failed = |errors| and sent + failed = n; the positions delivered and the
\* positions failed partition 1..n, results holding the former and errors the
\* latter; every error record carries name, email and a message; and success
\* is true exactly when failed = 0.
C12_EmailResultAccounting ==
    mailPc = "returned" =>
        LET ok     == LogOf({"sendOk"})
            failed == LogOf({"sendFail", "notConfigured"})
            okPos  == { ok[k].pos : k \in DOMAIN ok }
            badPos == { failed[k].pos : k \in DOMAIN failed }
        IN  /\ bulkResult.sent = Len(bulkResult.results)
            /\ bulkResult.failed = Len(bulkResult.errors)
            /\ bulkResult.sent + bulkResult.failed = Len(recipients)
            /\ okPos \cup badPos = 1..Len(recipients)
            /\ okPos \cap badPos = {}
            /\ Len(bulkResult.results) = Len(ok) /\ Len(bulkResult.errors) = Len(failed)
            /\ \A k \in DOMAIN ok :
                  bulkResult.results[k].name = recipients[ok[k].pos].name
            /\ \A k \in DOMAIN failed :
                  /\ DOMAIN bulkResult.errors[k] = {"name", "email", "error"}
                  /\ bulkResult.errors[k].name  = recipients[failed[k].pos].name
                  /\ bulkResult.errors[k].email = recipients[failed[k].pos].email
                  /\ bulkResult.errors[k].error # ""
            /\ bulkResult.success <=> (bulkResult.failed = 0)

\* A returned call with two messages sent and one failed, reported as not a success.
C12_Witness ==
    /\ mailPc = "returned"
    /\ bulkResult.sent = 2 /\ bulkResult.failed = 1
    /\ bulkResult.success = FALSE

\* The sheet has a recognized name header with a non-blank string under it in
\* some row.
HasNamedRow(data) ==
    \E k \in DOMAIN data : \E h \in Range(NameColumns) :
        /\ h \in DOMAIN data[k]
        /\ data[k][h] # NumberCell
        /\ TrimsToNonEmpty(data[k][h])

\* C13: name column recognition.  A sheet that has a recognized name header
\* with a non-empty name under it in at least one row, whichever row that is,
\* is never answered with the missing-name-column error.
C13_NameColumnRecognized ==
    ( /\ upPc = "responded"
      /\ sheet # OutOfScope
      /\ HasNamedRow(sheet) )
    => response # ErrorResponse(500, "Error reading Excel file: No name column found")

\* The rows that hold a string with a non-whitespace character under the
\* recognized name header.
RowsWithName(data) ==
    IF DOMAIN data[1] \cap Range(NameColumns) = {} THEN {}
    ELSE { k \in DOMAIN data :
             /\ RecognizedColumn(data) \in DOMAIN data[k]
             /\ data[k][RecognizedColumn(data)] # NumberCell
             /\ \E c \in Range(data[k][RecognizedColumn(data)]) : c \notin WhitespaceChars }

\* The j-th smallest member of a set of row numbers.
NthRow(S, j) == CHOOSE k \in S : Cardinality({ i \in S : i <= k }) = j

\* C14: recipient validity.  What extractDataFromExcel returns is, in row
\* order and without duplication, the name of each row whose name is non-empty
\* after trimming, and of no other row; in particular every returned name has
\* a non-whitespace character.
C14_RecipientValidity ==
    /\ upPc = "extracted" =>
          /\ Len(names) = Cardinality(RowsWithName(sheet))
          /\ \A j \in DOMAIN names :
                /\ names[j] = sheet[NthRow(RowsWithName(sheet), j)][RecognizedColumn(sheet)]
                /\ \E c \in Range(names[j]) : c \notin WhitespaceChars
    /\ ( /\ upPc = "responded"
         /\ response = ErrorResponse(400, "No names found in the Excel file") )
       => RowsWithName(sheet) = {}

\* A two-row sheet whose first name is blank and whose second is not yielded
\* the second row alone.
C14_Witness ==
    /\ upPc = "extracted"
    /\ Len(sheet) = 2
    /\ "name" \in DOMAIN sheet[1] /\ sheet[1]["name"] = BlankCell
    /\ names = << <<"b", "A">> >>

\* C15: the template is read-only.  No step of a batch changes the content of
\* the template file, whatever the outcome of the render; the only file a step
\* creates or changes is the output file of the recipient being rendered, and
\* that path is not the template path.
C15_TemplateReadOnly ==
    [][ (TemplatePath \in DOMAIN fsys) =>
          /\ TemplatePath \in DOMAIN fsys'
          /\ fsys'[TemplatePath] = fsys[TemplatePath]
          /\ \A p \in DOMAIN fsys' :
                (p \notin DOMAIN fsys \/ fsys'[p] # fsys[p])
                   => /\ pdfPc = "loop" /\ idx <= Len(names)
                      /\ p = OutputPath(outputDir, names[idx])
                      /\ p # TemplatePath
      ]_vars

\* A batch has returned with one recipient rendered and one failed, and the
\* template still holds its original bytes.
C15_Witness ==
    /\ pdfPc = "returned"
    /\ \E j, k \in DOMAIN faults : faults[j] = "ok" /\ faults[k] # "ok"
    /\ Cardinality(DOMAIN fsys) >= 2
    /\ fsys[TemplatePath] = TemplateBytes

\* The matches of the pattern in the slides of the deck, in scan order.
RECURSIVE SlideMatches(_)
SlideMatches(k) ==
    IF k = 0 THEN <<>>
    ELSE SlideMatches(k - 1)
            \o (IF entries[k].slide THEN Matches(entries[k].content, 1) ELSE <<>>)

\* C16: the scan returns a set.  Whatever is returned has no entry twice,
\* however often a token occurs within a slide or across slides; and a deck
\* with no matching token yields the empty list, not an error.
C16_ScannerReturnsSet ==
    /\ \A j, k \in DOMAIN scanResult : scanResult[j] = scanResult[k] => j = k
    /\ \A j, k \in DOMAIN placeholders : placeholders[j] = placeholders[k] => j = k
    /\ (scanPc = "returned" /\ SlideMatches(Len(entries)) = <<>>) => scanResult = <<>>

\* A token that occurs on two slides was returned once.
C16_Witness ==
    /\ scanPc = "returned"
    /\ Len(entries) = 2
    /\ entries[1].slide /\ entries[2].slide
    /\ Matches(entries[1].content, 1) = << <<"{", "{", "n", "}", "}">> >>
    /\ Matches(entries[2].content, 1) = << <<"{", "{", "n", "}", "}">> >>
    /\ scanResult = << <<"n">> >>

\* The body of a match: what stands between its first two and its last two braces.
BodyOf(m) == SubSeq(m, 3, Len(m) - 2)

\* C17 (as claimed): for every token '{{' + body + '}}' on a slide, the body
\* being one or more characters other than '}', the scan reports the body with
\* leading and trailing whitespace removed and nothing else changed, unless
\* that is empty; and it reports nothing else.
C17_TokenNormalization ==
    scanPc = "returned" =>
        LET ms == SlideMatches(Len(entries))
        IN  { scanResult[k] : k \in DOMAIN scanResult }
               = { Trim(BodyOf(ms[k])) : k \in DOMAIN ms } \ { <<>> }

ClaimedSize(width, height) ==
    IF width > 500 /\ height > 600
    THEN (IF 5 * width < 3200 THEN 5 * width ELSE 3200)
    ELSE (IF 4 * width < 2400 THEN 4 * width ELSE 2400)

C20_TextStaysOnPage ==
    \A k \in DOMAIN drawn :
        /\ drawn[k].x2 >= 0
        /\ drawn[k].x2 + 2 * drawn[k].textWidth <= 2 * drawn[k].pageWidth * 100000

\* C21 (as claimed): on every page on which the name is drawn, the left edge
\* of the text is the horizontal centre of that page less half the width of the
\* text at the size drawn, so that the middle of the text is the middle of the page.
C21_TextCenteredOnPage ==
    \A k \in DOMAIN drawn :
        /\ drawn[k].textWidth = WidthOfTextAtSize(ovName, drawn[k].size)
        /\ drawn[k].x2 = drawn[k].pageWidth * 100000 - drawn[k].textWidth

\* C22: date default.  The date handed to a renderer is never unset or
\* empty: it is the current date string when the request carried no date or
\* an empty one, and the request's date, unchanged, otherwise; one value
\* serves the whole batch.
C22_DateDefault ==
    rendererDate # NoDate =>
        /\ rendererDate \notin {Undefined, ""}
        /\ reqDate \in {Undefined, ""} => rendererDate = CurrentDate
        /\ reqDate \notin {Undefined, ""} => rendererDate = reqDate
        /\ additionalOptions.date = rendererDate

\* A deck batch of two recipients whose request had an empty date was
\* rendered with the current date.
C22_Witness ==
    /\ upPc = "responded"
    /\ response.status = 200
    /\ ToLowerCase(template.ext) = ".pptx"
    /\ Len(names) = 2
    /\ reqDate = ""
    /\ rendererDate = CurrentDate

\* The positions on the canvas of the drawing calls made on page k.
OpsOnPage(k, kind) == { j \in DOMAIN canvas : canvas[j].page = k /\ canvas[j].op = kind }

\* C23: overlay drawing order.  On every page processed (the name being
\* non-empty) there is one cover rectangle per candidate region, all painted
\* before the name; the name is drawn exactly once, at the primary position;
\* and no rectangle follows the name on that page.
C23_CoversBeforeName ==
    \A k \in 1..(pageIdx - 1) :
        ovName # <<>> =>
            /\ Cardinality(OpsOnPage(k, "drawText")) = 1
            /\ Cardinality(OpsOnPage(k, "drawRectangle")) = Len(analysis.likelyNamePositions)
            /\ \A t \in OpsOnPage(k, "drawText") :
                  /\ \A c \in OpsOnPage(k, "drawRectangle") : c < t
                  /\ canvas[t].y100 = analysis.likelyNamePositions[1].y100
                  /\ canvas[t].x2 + drawn[k].textWidth
                        = analysis.likelyNamePositions[1].x2 * 100000

\* A Letter page was saved with three covers followed by the name.
C23_Witness ==
    /\ ovPc = "saved"
    /\ pages = << [width |-> 612, height |-> 792] >>
    /\ Len(canvas) = 4
    /\ canvas[4].op = "drawText"
    /\ \A j \in 1..3 : canvas[j].op = "drawRectangle"

\* C24 (as claimed): batch lifecycle.  DELETE of an existing batch answers
\* success and removes it; from then on, for as long as the batch is absent,
\* the detail and download routes answer 404 for it and the list does not
\* hold it; DELETE of an id that is no batch answers 404 and leaves every
\* batch as it was.
C24_BatchLifecycle ==
    [][ \A id \in AskedIds :
          /\ DeleteBatch(id) =>
                IF id \in batchDirs
                THEN /\ apiResponse'.status = 200
                     /\ id \notin batchDirs'
                     /\ batchDirs' = batchDirs \ {id}
                     /\ \A f \in batchFiles : f.dir # id => f \in batchFiles'
                ELSE /\ apiResponse'.status = 404
                     /\ batchDirs' = batchDirs /\ batchFiles' = batchFiles
          /\ (GetBatch(id) /\ id \notin batchDirs) => apiResponse'.status = 404
          /\ \A file \in AskedFiles :
                (Download(id, file) /\ id \notin batchDirs) => apiResponse'.status = 404
          /\ (ListBatches /\ id \notin batchDirs) => id \notin apiResponse'.body
      ]_vars

\* C30 (as claimed): any two uploads get different batch ids, hence different
\* output directories, and no batch directory holds files of two uploads.
C30_DistinctBatchIds ==
    /\ \A r1, r2 \in UploadRequests :
          (r1 # r2 /\ upReq[r1].pc # "idle" /\ upReq[r2].pc # "idle")
             => upReq[r1].id # upReq[r2].id
    /\ \A f, g \in batchFiles : f.dir = g.dir => f.by = g.by

\* What holds of an unconfigured service apart from the summary's success flag.
UnconfiguredSendsNothing ==
    /\ [](~isConfigured => (LogOf({"sendStart"}) = <<>> /\ inFlight = 0))
    /\ [][ \A verified \in BOOLEAN :
              (~isConfigured /\ TestEmail(verified)) =>
                 testResult' = [success |-> FALSE, error |-> "Email service not configured"] ]_vars
    /\ [][ (~isConfigured /\ SendCertificateCall) =>
              /\ Len(errors') = Len(errors) + 1
              /\ errors'[Len(errors')].error = "Email service not configured"
              /\ mailLog'[Len(mailLog')].ev = "notConfigured"
              /\ inFlight' = inFlight ]_vars
    /\ [](mailPc = "returned" /\ ~isConfigured =>
             bulkResult.sent = 0 /\ bulkResult.failed = Len(recipients))

EnvTransporter ==
    CreateTransport([service |-> "gmail", user |-> <<"e", "@", "x", ".", "y">>,
                     password |-> "envpass"])

\* C27: configured implies usable.  Whenever isConfigured is true the
\* transporter is non-null; a configure call that fails leaves isConfigured and
\* the transporter as they were; isConfigured never goes back from true to
\* false; and the same holds of DriveService and its drive client.
C27_ConfiguredImpliesUsable ==
    /\ [](isConfigured => transporter # NullTransporter)
    /\ [](driveConfigured => drive # NullDrive)
    /\ [][ (isConfigured => isConfigured') /\ (driveConfigured => driveConfigured') ]_vars
    /\ [][ \A body \in ConfigBodies :
              ConfigureEmailRequest(body, FALSE) => UNCHANGED <<transporter, isConfigured>> ]_vars
    /\ [][ \A env \in Environments :
              ConfigureFromEnv(env, FALSE) => UNCHANGED <<transporter, isConfigured>> ]_vars
    /\ [][ \A config \in DriveConfigs, created \in BOOLEAN :
              (~DriveConfigure(config, created).result.success
                 /\ DriveConfigureCall(config, created))
              => UNCHANGED <<drive, driveConfigured>> ]_vars

\* Both services configured, and a configure of the email service that failed
\* afterwards: the transporter of the environment is still installed.
C27_Witness ==
    /\ isConfigured /\ driveConfigured
    /\ cfgPc = "done" /\ cfgResponse.error = "createTransport threw"
    /\ transporter = EnvTransporter

\* POST /configure-email has answered that the connection test failed.
TestFailedAnswered ==
    cfgPc = "done" /\ cfgResponse.error = "Configuration saved but connection test failed"

\* C28: failed connection test keeps the new configuration.  When the test
\* after a stored configuration fails the response is success = false, the new
\* transporter stays installed and isConfigured stays true: the status then
\* reports configured and later messages go through the new transporter.
C28_FailedTestKeepsConfiguration ==
    /\ [][ ConfigureEmailTested(FALSE) =>
              /\ cfgResponse'.success = FALSE
              /\ transporter' = CreateTransport(cfgBody)
              /\ isConfigured' ]_vars
    /\ [](TestFailedAnswered =>
             /\ ~cfgResponse.success
             /\ isConfigured /\ transporter = CreateTransport(cfgBody)
             /\ GetStatus = [configured |-> TRUE, service |-> "Configured"])
    /\ [][ (TestFailedAnswered /\ SendCertificateCall) =>
              /\ mailLog'[Len(mailLog')].ev = "sendStart"
              /\ mailLog'[Len(mailLog')].via = CreateTransport(cfgBody) ]_vars

\* The transporter of the environment was in use when the bulk call started,
\* the route then stored new credentials whose test failed, and a message has
\* gone out through the new transporter.
C28_Witness ==
    /\ TestFailedAnswered
    /\ callTransporter = EnvTransporter
    /\ transporter = CreateTransport(cfgBody) /\ transporter # EnvTransporter
    /\ \E k \in DOMAIN mailLog :
          mailLog[k].ev = "sendStart" /\ mailLog[k].via = CreateTransport(cfgBody)

\* C29: one configuration per bulk send.  Every message of one
\* sendBulkCertificates call is handed to the transporter that was installed
\* when the call started, also when POST /configure-email is handled while the
\* call waits on a send or on the delay.
C29_OneConfigurationPerBulkSend ==
    \A k \in DOMAIN mailLog :
       mailLog[k].ev = "sendStart" => mailLog[k].via = callTransporter

\* The templates of the catalogue that match a query and a category, in
\* catalogue order; an empty query or category matches everything.
MatchingTemplates(query, category) ==
    SelectSeq(MockTemplates,
              LAMBDA t : /\ (query = <<>> \/ MatchesQuery(t, query))
                         /\ (category = <<>> \/ InCategory(t, category)))

\* C26: catalog pagination.  For offset >= 0 and limit > 0 the answer holds
\* exactly the matching templates at positions offset .. offset + limit - 1 of
\* the filtered catalogue, in catalogue order and at most limit of them; total
\* is the number of matching templates before pagination; and hasMore is true
\* exactly when offset + limit < total.
C26_CatalogPagination ==
    (catPc = "responded" /\ searchOptions.offset >= 0 /\ searchOptions.limit > 0) =>
       LET filtered == MatchingTemplates(searchOptions.query, searchOptions.category)
           offset   == searchOptions.offset
           limit    == searchOptions.limit
           count    == Max(Min(offset + limit, Len(filtered)) - offset, 0)
       IN  /\ searchResult.success
           /\ Len(searchResult.templates) = count
           /\ \A k \in 1..count : searchResult.templates[k] = filtered[offset + k]
           /\ Len(searchResult.templates) <= limit
           /\ searchResult.total = Len(filtered)
           /\ searchResult.hasMore = (offset + limit < searchResult.total)

\* The second and third of the four templates matching 'cert' were asked for
\* and returned, with more to come.
C26_Witness ==
    /\ catPc = "responded"
    /\ searchOptions.query = <<"c", "e", "r", "t">> /\ searchOptions.category = <<>>
    /\ searchOptions.offset = 1 /\ searchOptions.limit = 2
    /\ searchResult.total = 4 /\ searchResult.hasMore
    /\ Len(searchResult.templates) = 2
    /\ searchResult.templates[1].id = "cert-creative-004"
    /\ searchResult.templates[2].id = "cert-corporate-005"

====
